---------------------------- MODULE Spec2Model ----------------------------
(***************************************************************************)
(* State-machine model of the stellarspend contracts: the time-locked      *)
(* escrow (contracts/escrow/src/gas.rs), the recurring payment scheduler   *)
(* (contracts/recurring-payment/src/lib.rs), the batch reward settlement   *)
(* (contracts/batch-rewards/src/gas.rs) and the staking contract they      *)
(* build on, with the event validators of contracts/events/src/gas.rs.     *)
(*                                                                         *)
(* Every public entry point is one action.  A Soroban invocation that      *)
(* panics is discarded by the host as a whole: the action then leaves the  *)
(* contract state as it was and records the panic message in `last`.       *)
(***************************************************************************)
EXTENDS Integers, Sequences, FiniteSets, TLC

VARIABLES
    now,            \* env.ledger().timestamp()
    registered,     \* env.register_contract: the contract the calls are addressed to
    config,         \* instance storage, DataKey::Config ({} = not initialised)
    bal,            \* balances of the token contract, per holder
    escrows,        \* persistent storage, EscrowKey::Entry(depositor, id) -> EscrowEntry
    locked,         \* history: per escrow key, the last successful lock call and whether it was paid
    overflow_checks,\* build profile: TRUE = u64 overflow panics, FALSE = it wraps
    payment_count,  \* instance storage, DataKey::PaymentCount (0 = never written)
    payments,       \* instance storage, DataKey::Payment(id) -> RecurringPayment
    runs,           \* history: per payment id, the number of successful execute_payment calls
    moved,          \* history: per payment id, the tokens execute_payment has transferred
    stakes,         \* persistent storage, DataKey::StakeEntry(staker) -> StakeEntry
    last,           \* observation of the most recent step: operation, arguments, outcome
    published       \* the events the most recent invocation published

escrowVars == <<escrows, locked>>
recurVars == <<overflow_checks, payment_count, payments, runs, moved>>

vars == <<now, registered, config, bal, escrowVars, recurVars, stakes, last, published>>

-----------------------------------------------------------------------------
(* Bounds of the model *)

MaxNow == 2

\* The model's timestamps are TimestampBits wide; the contracts' are u64.
TimestampBits == 3
MaxPayments == 2
MaxBalance == 13
MaxStaked == 230

-----------------------------------------------------------------------------
(* Principals *)

Addr == {"alice", "bob"}
Contract == "contract"
Holders == Addr \cup {Contract}
TokenAddr == "token"

(* Inputs the calls are tried with *)
Amounts == {0, 1, 2}
EscrowIds == {1, 2}
UnlockTimes == 0..(MaxNow + 1)

OK == "ok"
AuthFailure == "require_auth failed"
TransferFailure == "token transfer failed"

-----------------------------------------------------------------------------
(* External collaborators *)

\* Address::require_auth: the invocation carries the authorisation of `caller` only.
require_auth(caller, principal) == caller = principal

\* token::Client::transfer succeeds when the source holds the amount.
can_transfer(b, from, amount) == amount >= 0 /\ b[from] >= amount

\* Soroban host: an invocation that traps (panic!, assert!, expect, a refused
\* require_auth or token transfer, an arithmetic trap) is discarded with every
\* write and transfer it had made; one that returns keeps what it reached.
invocation_result(before, reached, traps) == IF traps THEN before ELSE reached

\* token::Client::transfer: moves `amount` from `from` to `to`.
transfer(b, from, to, amount) ==
    [h \in DOMAIN b |->
        IF h = from /\ h = to THEN b[h]
        ELSE IF h = from THEN b[h] - amount
        ELSE IF h = to THEN b[h] + amount
        ELSE b[h]]

\* The configuration the deployment helpers establish with initialize.
Config == [admin |-> "alice", token |-> TokenAddr, reward_rate |-> 1200, min_stake |-> 100]

-----------------------------------------------------------------------------
(* events/src/gas.rs: validators *)

validate_escrow_locked_event(data) ==
    IF ~(data.amount > 0) THEN "event validation: escrow amount must be > 0"
    ELSE IF ~(data.unlock_ts > data.timestamp)
         THEN "event validation: unlock_ts must be in the future"
    ELSE OK

validate_escrow_released_event(data) ==
    IF ~(data.amount > 0) THEN "event validation: released amount must be > 0"
    ELSE OK

-----------------------------------------------------------------------------
(* escrow/src/gas.rs *)

EscrowKey(depositor, escrow_id) == <<depositor, escrow_id>>

EscrowEntry(depositor, beneficiary, amount, unlock_ts) ==
    [depositor |-> depositor, beneficiary |-> beneficiary,
     amount |-> amount, unlock_ts |-> unlock_ts]

EscrowLockedEventData(depositor, beneficiary, amount, unlock_ts, timestamp) ==
    [topic |-> "ESCROW", kind |-> "locked", depositor |-> depositor,
     beneficiary |-> beneficiary, amount |-> amount, unlock_ts |-> unlock_ts,
     timestamp |-> timestamp]

EscrowReleasedEventData(beneficiary, amount, timestamp) ==
    [topic |-> "ESCROW", kind |-> "released", beneficiary |-> beneficiary,
     amount |-> amount, timestamp |-> timestamp]

\* storage().persistent().has(&key)
has_escrow(key) == key \in DOMAIN escrows

\* get_escrow: Option<EscrowEntry>, {} for None and {entry} for Some(entry)
get_escrow(depositor, escrow_id) ==
    IF has_escrow(EscrowKey(depositor, escrow_id))
    THEN {escrows[EscrowKey(depositor, escrow_id)]}
    ELSE {}

\* Variant of lock_panic that lacks the duplicate-id guard.
lock_panic_no_duplicate_guard(caller, depositor, beneficiary, amount, unlock_ts, escrow_id) ==
    IF ~require_auth(caller, depositor) THEN AuthFailure
    ELSE IF ~(amount > 0) THEN "escrow amount must be > 0"
    ELSE IF ~(unlock_ts > now) THEN "unlock_ts must be in the future"
    ELSE IF config = {} THEN "staking contract not initialised"
    ELSE IF ~can_transfer(bal, depositor, amount) THEN TransferFailure
    ELSE OK

\* Variant of lock_panic that checks neither amount nor unlock_ts, in the
\* asserts or in the validation of the locked event.
lock_panic_no_input_checks(caller, depositor, beneficiary, amount, unlock_ts, escrow_id) ==
    IF ~require_auth(caller, depositor) THEN AuthFailure
    ELSE IF has_escrow(EscrowKey(depositor, escrow_id))
         THEN "escrow ID already in use"
    ELSE IF config = {} THEN "staking contract not initialised"
    ELSE IF ~can_transfer(bal, depositor, amount) THEN TransferFailure
    ELSE OK

\* Variant of lock_panic without the asserts on amount and unlock_ts; the
\* validation of the locked event is left in place.
lock_panic_without_asserts(caller, depositor, beneficiary, amount, unlock_ts, escrow_id) ==
    IF ~require_auth(caller, depositor) THEN AuthFailure
    ELSE IF has_escrow(EscrowKey(depositor, escrow_id))
         THEN "escrow ID already in use"
    ELSE IF config = {} THEN "staking contract not initialised"
    ELSE IF ~can_transfer(bal, depositor, amount) THEN TransferFailure
    ELSE validate_escrow_locked_event(
             EscrowLockedEventData(depositor, beneficiary, amount, unlock_ts, now))

\* lock: the first panic the call runs into, or OK
lock_panic(caller, depositor, beneficiary, amount, unlock_ts, escrow_id) ==
    IF ~require_auth(caller, depositor) THEN AuthFailure
    ELSE IF ~(amount > 0) THEN "escrow amount must be > 0"
    ELSE IF ~(unlock_ts > now) THEN "unlock_ts must be in the future"
    ELSE IF has_escrow(EscrowKey(depositor, escrow_id))
         THEN "escrow ID already in use"
    ELSE IF config = {} THEN "staking contract not initialised"
    ELSE IF ~can_transfer(bal, depositor, amount) THEN TransferFailure
    ELSE validate_escrow_locked_event(
             EscrowLockedEventData(depositor, beneficiary, amount, unlock_ts, now))

\* lock: the persistent storage after the single packed write
lock_store(depositor, beneficiary, amount, unlock_ts, escrow_id) ==
    [k \in DOMAIN escrows \cup {EscrowKey(depositor, escrow_id)} |->
        IF k = EscrowKey(depositor, escrow_id)
        THEN EscrowEntry(depositor, beneficiary, amount, unlock_ts)
        ELSE escrows[k]]

\* Variant of lock_transfer that moves nothing.
lock_transfer_skipped(depositor, amount) == bal

\* lock: the balances after depositor -> escrow contract
lock_transfer(depositor, amount) == transfer(bal, depositor, Contract, amount)

lock ==
    \E caller \in Addr, depositor \in Addr, beneficiary \in Addr,
       amount \in Amounts, unlock_ts \in UnlockTimes, escrow_id \in EscrowIds :
        LET key == EscrowKey(depositor, escrow_id)
            res == lock_panic(caller, depositor, beneficiary, amount, unlock_ts, escrow_id)
        IN  /\ last' = [op |-> "lock", caller |-> caller, key |-> key, res |-> res]
            /\ IF res = OK
               THEN /\ bal' = lock_transfer(depositor, amount)
                    /\ escrows' = lock_store(depositor, beneficiary, amount, unlock_ts, escrow_id)
                    /\ locked' = [locked EXCEPT ![key] =
                                    [st |-> "held", beneficiary |-> beneficiary,
                                     amount |-> amount, unlock_ts |-> unlock_ts]]
                    /\ published' = <<EscrowLockedEventData(depositor, beneficiary,
                                                            amount, unlock_ts, now)>>
               ELSE /\ UNCHANGED <<bal, escrows, locked>>
                    /\ published' = <<>>
            /\ UNCHANGED <<now, registered, config, recurVars, stakes>>

\* Variant of release_panic that lacks the unlock_ts assertion.
release_panic_no_timelock(depositor, escrow_id) ==
    IF ~has_escrow(EscrowKey(depositor, escrow_id)) THEN "escrow entry not found"
    ELSE IF config = {} THEN "staking contract not initialised"
    ELSE IF ~can_transfer(bal, Contract, escrows[EscrowKey(depositor, escrow_id)].amount)
         THEN TransferFailure
    ELSE OK

\* Variant of release_panic that opens only after unlock_ts has passed.
release_panic_after_unlock_only(depositor, escrow_id) ==
    IF ~has_escrow(EscrowKey(depositor, escrow_id)) THEN "escrow entry not found"
    ELSE IF ~(now > escrows[EscrowKey(depositor, escrow_id)].unlock_ts)
         THEN "escrow is still locked"
    ELSE IF config = {} THEN "staking contract not initialised"
    ELSE IF ~can_transfer(bal, Contract, escrows[EscrowKey(depositor, escrow_id)].amount)
         THEN TransferFailure
    ELSE validate_escrow_released_event(
             EscrowReleasedEventData(
                 escrows[EscrowKey(depositor, escrow_id)].beneficiary,
                 escrows[EscrowKey(depositor, escrow_id)].amount, now))

\* release: the first panic the call runs into, or OK
release_panic(depositor, escrow_id) ==
    IF ~has_escrow(EscrowKey(depositor, escrow_id)) THEN "escrow entry not found"
    ELSE IF ~(now >= escrows[EscrowKey(depositor, escrow_id)].unlock_ts)
         THEN "escrow is still locked"
    ELSE IF config = {} THEN "staking contract not initialised"
    ELSE IF ~can_transfer(bal, Contract, escrows[EscrowKey(depositor, escrow_id)].amount)
         THEN TransferFailure
    ELSE validate_escrow_released_event(
             EscrowReleasedEventData(
                 escrows[EscrowKey(depositor, escrow_id)].beneficiary,
                 escrows[EscrowKey(depositor, escrow_id)].amount, now))

\* Variant of release_store that leaves the slot in place.
release_store_keeps_slot(depositor, escrow_id) == escrows

\* Variant of release_store for a release that removes the slot only after the
\* transfer has been made.
release_store_deferred(depositor, escrow_id) == escrows

\* release: the persistent storage after remove(&key)
release_store(depositor, escrow_id) ==
    [k \in DOMAIN escrows \ {EscrowKey(depositor, escrow_id)} |-> escrows[k]]

\* Variant of release_transfer that pays the depositor.
release_transfer_to_depositor(depositor, escrow_id) ==
    transfer(bal, Contract, depositor, escrows[EscrowKey(depositor, escrow_id)].amount)

\* release: the balances after escrow contract -> entry.beneficiary
release_transfer(depositor, escrow_id) ==
    transfer(bal, Contract,
             escrows[EscrowKey(depositor, escrow_id)].beneficiary,
             escrows[EscrowKey(depositor, escrow_id)].amount)

release ==
    \E caller \in Addr, depositor \in Addr, escrow_id \in EscrowIds :
        LET key == EscrowKey(depositor, escrow_id)
            res == release_panic(depositor, escrow_id)
        IN  /\ last' = [op |-> "release", caller |-> caller, key |-> key, res |-> res]
            /\ IF res = OK
               THEN /\ escrows' = release_store(depositor, escrow_id)
                    /\ bal' = release_transfer(depositor, escrow_id)
                    /\ locked' = [locked EXCEPT ![key] =
                                    [st |-> "paid", beneficiary |-> "-",
                                     amount |-> 0, unlock_ts |-> 0]]
                    /\ published' = <<EscrowReleasedEventData(
                                        escrows[key].beneficiary, escrows[key].amount, now)>>
               ELSE /\ UNCHANGED <<bal, escrows, locked>>
                    /\ published' = <<>>
            /\ UNCHANGED <<now, registered, config, recurVars, stakes>>

\* The ledger closes: the timestamp advances.
Tick ==
    /\ now < MaxNow
    /\ now' = now + 1
    /\ last' = [op |-> "tick", caller |-> "-", key |-> <<"-", 0>>, res |-> OK]
    /\ published' = <<>>
    /\ UNCHANGED <<registered, config, bal, escrowVars, recurVars, stakes>>

EscrowKeys == Addr \X EscrowIds

InitEscrow ==
    /\ registered = "escrow"
    /\ now = 0
    /\ config \in {{}, {Config}}
    /\ bal = [h \in Holders |-> IF h = "alice" THEN 2 ELSE 0]
    /\ escrows = <<>>
    /\ locked = [k \in EscrowKeys |->
                    [st |-> "never", beneficiary |-> "-", amount |-> 0, unlock_ts |-> 0]]
    /\ last = [op |-> "deploy", caller |-> "-", key |-> <<"-", 0>>, res |-> OK]
    /\ published = <<>>
    /\ overflow_checks = TRUE
    /\ payment_count = 0
    /\ payments = <<>>
    /\ runs = <<>>
    /\ moved = <<>>
    /\ stakes = <<>>

NextEscrow == lock \/ release \/ Tick

SpecEscrow == InitEscrow /\ [][NextEscrow]_vars

\* release(depositor, escrow_id) called by `caller` and going through
release_taken(caller, key) ==
    release /\ last'.caller = caller /\ last'.key = key /\ last'.res = OK

\* lock(...) going through
lock_taken == lock /\ last'.res = OK

\* The calls that go through: a call that panics is rolled back and leaves the
\* contract as it was, so for what the contract stores it is a step that does
\* nothing.
NextEscrowTaken ==
    \/ lock_taken
    \/ \E caller \in Addr, key \in EscrowKeys : release_taken(caller, key)
    \/ Tick

\* The escrow contract on a ledger that keeps closing and with callers that keep
\* calling release on every escrow: the clock advances while it can, and a
\* release that stays possible is eventually made.
SpecEscrowFair ==
    /\ InitEscrow
    /\ [][NextEscrowTaken]_vars
    /\ WF_vars(Tick)
    /\ \A key \in EscrowKeys : WF_vars(\E caller \in Addr : release_taken(caller, key))

\* release followed statement by statement, for a token that may refuse the
\* outward transfer.  The position of a call that has removed the slot and is
\* inside token::Client::transfer is kept in `last`, with the entry the call
\* read into its local `entry`.
InTransfer == "in transfer"

release_in_transfer == last.op = "release" /\ last.res = InTransfer

\* release: the first panic before the slot is removed, or OK
release_panic_before_remove(depositor, escrow_id) ==
    IF ~has_escrow(EscrowKey(depositor, escrow_id)) THEN "escrow entry not found"
    ELSE IF ~(now >= escrows[EscrowKey(depositor, escrow_id)].unlock_ts)
         THEN "escrow is still locked"
    ELSE IF config = {} THEN "staking contract not initialised"
    ELSE OK

\* release up to the call of the token: the read, the asserts and the removal
\* of the slot.  A call that panics before the removal ends here.
release_remove ==
    /\ ~release_in_transfer
    /\ \E caller \in Addr, depositor \in Addr, escrow_id \in EscrowIds :
          LET key == EscrowKey(depositor, escrow_id)
              res == release_panic_before_remove(depositor, escrow_id)
          IN  IF res = OK
              THEN /\ escrows' = release_store(depositor, escrow_id)
                   /\ last' = [op |-> "release", caller |-> caller, key |-> key,
                               res |-> InTransfer, entry |-> escrows[key]]
              ELSE /\ escrows' = escrows
                   /\ last' = [op |-> "release", caller |-> caller, key |-> key,
                               res |-> res]
    /\ published' = <<>>
    /\ UNCHANGED <<now, registered, config, bal, locked, recurVars, stakes>>

\* the stored entries as they were when the release in progress was invoked
escrows_before_release ==
    [k \in DOMAIN escrows \cup {last.key} |->
        IF k = last.key THEN last.entry ELSE escrows[k]]

\* release from the token's transfer on, the token accepting: the funds move
\* to entry.beneficiary and the notification is validated and published.
release_pay ==
    /\ release_in_transfer
    /\ can_transfer(bal, Contract, last.entry.amount)
    /\ LET res == validate_escrow_released_event(
                      EscrowReleasedEventData(last.entry.beneficiary,
                                              last.entry.amount, now))
       IN  /\ last' = [op |-> "release", caller |-> last.caller, key |-> last.key,
                       res |-> res]
           /\ escrows' = invocation_result(escrows_before_release, escrows, res # OK)
           /\ bal' = invocation_result(
                        bal,
                        transfer(bal, Contract, last.entry.beneficiary, last.entry.amount),
                        res # OK)
           /\ locked' = invocation_result(
                           locked,
                           [locked EXCEPT ![last.key] =
                               [st |-> "paid", beneficiary |-> "-",
                                amount |-> 0, unlock_ts |-> 0]],
                           res # OK)
           /\ published' = invocation_result(
                              <<>>,
                              <<EscrowReleasedEventData(last.entry.beneficiary,
                                                        last.entry.amount, now)>>,
                              res # OK)
    /\ UNCHANGED <<now, registered, config, recurVars, stakes>>

\* release whose transfer the token refuses: the transfer traps inside the
\* call, after the slot was removed, and the host discards the invocation, the
\* removal included.
release_transfer_refused ==
    /\ release_in_transfer
    /\ last' = [op |-> "release", caller |-> last.caller, key |-> last.key,
                res |-> TransferFailure]
    /\ escrows' = invocation_result(escrows_before_release, escrows, TRUE)
    /\ published' = <<>>
    /\ UNCHANGED <<now, registered, config, bal, locked, recurVars, stakes>>

NextEscrowRefusing ==
    \/ ~release_in_transfer /\ lock
    \/ release_remove
    \/ release_pay
    \/ release_transfer_refused
    \/ ~release_in_transfer /\ Tick

SpecEscrowRefusing == InitEscrow /\ [][NextEscrowRefusing]_vars

-----------------------------------------------------------------------------
(* recurring-payment/src/lib.rs and types.rs *)

U64Max == 2^TimestampBits - 1

RecurringPayment(sender, recipient, token, amount, interval, next_execution, active) ==
    [sender |-> sender, recipient |-> recipient, token |-> token, amount |-> amount,
     interval |-> interval, next_execution |-> next_execution, active |-> active]

\* create_payment calls the scheduler is tried with
PaymentRequests ==
    { [sender |-> "alice", recipient |-> "bob",   amount |-> 1,  interval |-> 1, start_time |-> 0],
      [sender |-> "bob",   recipient |-> "alice", amount |-> 2,  interval |-> U64Max, start_time |-> 1],
      [sender |-> "alice", recipient |-> "bob",   amount |-> 0,  interval |-> 1, start_time |-> 0],
      [sender |-> "alice", recipient |-> "bob",   amount |-> -1, interval |-> 1, start_time |-> 0],
      [sender |-> "alice", recipient |-> "bob",   amount |-> 1,  interval |-> 0, start_time |-> 0] }

\* payment ids the calls are tried with: the stored ones and two that never exist
PaymentIdInputs == 0..(MaxPayments + 1)

\* storage().instance().get(&DataKey::Payment(id)) is Some
has_payment(payment_id) == payment_id \in DOMAIN payments

\* get_payment: the stored record ({} stands for the panic "Payment not found")
get_payment(payment_id) ==
    IF has_payment(payment_id) THEN {payments[payment_id]} ELSE {}

\* create_payment: the first panic the call runs into, or OK
\* Variant of create_payment_panic that lacks the amount check.
create_payment_panic_no_amount_check(caller, sender, amount, interval) ==
    IF ~require_auth(caller, sender) THEN AuthFailure
    ELSE IF interval = 0 THEN "Interval must be positive"
    ELSE OK

create_payment_panic(caller, sender, amount, interval) ==
    IF ~require_auth(caller, sender) THEN AuthFailure
    ELSE IF amount <= 0 THEN "Amount must be positive"
    ELSE IF interval = 0 THEN "Interval must be positive"
    ELSE OK

\* Variant of next_payment_id that hands out the current count again.
next_payment_id_without_increment == IF payment_count = 0 THEN 1 ELSE payment_count

\* create_payment: count = PaymentCount.unwrap_or(0); count += 1
next_payment_id == payment_count + 1

create_payment ==
    \E caller \in Addr, r \in PaymentRequests :
        LET res == create_payment_panic(caller, r.sender, r.amount, r.interval)
            count == next_payment_id
        IN  /\ payment_count < MaxPayments
            /\ IF res = OK
               THEN /\ payments' = [i \in DOMAIN payments \cup {count} |->
                                      IF i = count
                                      THEN RecurringPayment(r.sender, r.recipient, TokenAddr,
                                                            r.amount, r.interval,
                                                            r.start_time, TRUE)
                                      ELSE payments[i]]
                    /\ payment_count' = count
                    /\ runs' = [i \in DOMAIN runs \cup {count} |->
                                  IF i = count THEN 0 ELSE runs[i]]
                    /\ moved' = [i \in DOMAIN moved \cup {count} |->
                                   IF i = count THEN 0 ELSE moved[i]]
                    /\ published' = <<[topic |-> "recur", kind |-> "created",
                                       payment_id |-> count, sender |-> r.sender]>>
                    /\ last' = [op |-> "create", caller |-> caller, id |-> count, res |-> res,
                                request |-> r]
               ELSE /\ UNCHANGED <<payments, payment_count, runs, moved>>
                    /\ published' = <<>>
                    /\ last' = [op |-> "create", caller |-> caller, id |-> 0, res |-> res,
                                request |-> r]
            /\ UNCHANGED <<now, registered, config, bal, escrowVars, overflow_checks, stakes>>

\* intervals_passed = (current_time - payment.next_execution) / payment.interval
intervals_passed(current_time, next_execution, interval) ==
    (current_time - next_execution) \div interval

\* u64 arithmetic: whether the exact result leaves the type
u64_overflows(x) == x > U64Max

\* u64 arithmetic without overflow checks: the result wraps
u64_wrap(x) == x % (U64Max + 1)

\* payment.next_execution += (intervals_passed + 1) * payment.interval:
\* whether one of the three u64 operations overflows
advance_overflows(current_time, next_execution, interval) ==
    LET n == intervals_passed(current_time, next_execution, interval) + 1
    IN  \/ u64_overflows(n)
        \/ u64_overflows(n * interval)
        \/ u64_overflows(next_execution + n * interval)

\* payment.next_execution += (intervals_passed + 1) * payment.interval:
\* the value stored when the call goes on
advance_next_execution(current_time, next_execution, interval) ==
    LET n == u64_wrap(intervals_passed(current_time, next_execution, interval) + 1)
    IN  u64_wrap(next_execution + u64_wrap(n * interval))

\* Variant of execute_transfers with one transfer per interval caught up.
execute_transfers_per_missed_interval(payment_id) ==
    [i \in 1..(intervals_passed(now, payments[payment_id].next_execution,
                                payments[payment_id].interval) + 1) |->
        [from |-> payments[payment_id].sender, to |-> payments[payment_id].recipient,
         amount |-> payments[payment_id].amount]]

\* execute_payment: the transfers the call asks the token contract for, in order
execute_transfers(payment_id) ==
    <<[from |-> payments[payment_id].sender, to |-> payments[payment_id].recipient,
       amount |-> payments[payment_id].amount]>>

\* The transfers of a call applied in order; {} when one of them fails.
RECURSIVE apply_transfers(_, _)
apply_transfers(b, ts) ==
    IF ts = <<>> THEN {b}
    ELSE IF ~can_transfer(b, Head(ts).from, Head(ts).amount) THEN {}
    ELSE apply_transfers(transfer(b, Head(ts).from, Head(ts).to, Head(ts).amount), Tail(ts))

RECURSIVE sum_amounts(_)
sum_amounts(ts) == IF ts = <<>> THEN 0 ELSE Head(ts).amount + sum_amounts(Tail(ts))

\* Variant of execute_payment_panic that lacks the active check.
execute_payment_panic_no_active_check(payment_id) ==
    IF ~has_payment(payment_id) THEN "Payment not found"
    ELSE IF now < payments[payment_id].next_execution THEN "Too early for next execution"
    ELSE IF apply_transfers(bal, execute_transfers(payment_id)) = {} THEN TransferFailure
    ELSE IF overflow_checks
            /\ advance_overflows(now, payments[payment_id].next_execution,
                                 payments[payment_id].interval)
         THEN "attempt to add or multiply with overflow"
    ELSE OK

\* Variant of execute_payment_panic that lacks the too-early check.
execute_payment_panic_no_due_check(payment_id) ==
    IF ~has_payment(payment_id) THEN "Payment not found"
    ELSE IF ~payments[payment_id].active THEN "Payment is not active"
    ELSE IF apply_transfers(bal, execute_transfers(payment_id)) = {} THEN TransferFailure
    ELSE IF overflow_checks
            /\ advance_overflows(now, payments[payment_id].next_execution,
                                 payments[payment_id].interval)
         THEN "attempt to add or multiply with overflow"
    ELSE OK

\* execute_payment: the first panic the call runs into, or OK
execute_payment_panic(payment_id) ==
    IF ~has_payment(payment_id) THEN "Payment not found"
    ELSE IF ~payments[payment_id].active THEN "Payment is not active"
    ELSE IF now < payments[payment_id].next_execution THEN "Too early for next execution"
    ELSE IF apply_transfers(bal, execute_transfers(payment_id)) = {} THEN TransferFailure
    ELSE IF overflow_checks
            /\ advance_overflows(now, payments[payment_id].next_execution,
                                 payments[payment_id].interval)
         THEN "attempt to add or multiply with overflow"
    ELSE OK

\* execute_payment: the balances the call has reached when it stops with res.
\* The transfer (lib.rs:98) comes before the advance of next_execution
\* (lib.rs:111), so a call that stops in the advance has moved the tokens.
execute_payment_reached_balances(payment_id, res) ==
    IF res = "attempt to add or multiply with overflow"
    THEN CHOOSE b \in apply_transfers(bal, execute_transfers(payment_id)) : TRUE
    ELSE bal

\* Variant of execute_payment_traps for an advance written with checked
\* arithmetic that returns early where the sum leaves u64.
execute_payment_traps_unless_overflow(res) ==
    res \notin {OK, "attempt to add or multiply with overflow"}

\* execute_payment: every way the call stops short is a trap: expect
\* (lib.rs:83), panic! (lib.rs:88, 92), the token client's transfer
\* (lib.rs:98) and the overflow check of the advance (lib.rs:111).
execute_payment_traps(res) == res # OK

execute_payment ==
    \E caller \in Addr, payment_id \in PaymentIdInputs :
        LET res == execute_payment_panic(payment_id)
        IN  /\ last' = [op |-> "execute", caller |-> caller, id |-> payment_id, res |-> res]
            /\ IF res = OK
               THEN LET next == advance_next_execution(
                                    now, payments[payment_id].next_execution,
                                    payments[payment_id].interval)
                    IN  /\ bal' \in apply_transfers(bal, execute_transfers(payment_id))
                        /\ payments' = [payments EXCEPT ![payment_id].next_execution = next]
                        /\ runs' = [runs EXCEPT ![payment_id] = @ + 1]
                        /\ moved' = [moved EXCEPT ![payment_id] =
                                        @ + sum_amounts(execute_transfers(payment_id))]
                        /\ published' = <<[topic |-> "recur", kind |-> "executed",
                                           payment_id |-> payment_id,
                                           amount |-> payments[payment_id].amount,
                                           next_execution |-> next]>>
               ELSE /\ bal' = invocation_result(
                                 bal, execute_payment_reached_balances(payment_id, res),
                                 execute_payment_traps(res))
                    /\ UNCHANGED <<payments, runs, moved>>
                    /\ published' = <<>>
            /\ UNCHANGED <<now, registered, config, escrowVars, overflow_checks,
                           payment_count, stakes>>

\* Variant of cancel_payment_panic that lacks the active check.
cancel_payment_panic_no_active_check(caller, payment_id) ==
    IF ~has_payment(payment_id) THEN "Payment not found"
    ELSE IF ~require_auth(caller, payments[payment_id].sender) THEN AuthFailure
    ELSE OK

\* Variant of cancel_payment_panic that lacks the sender's require_auth.
cancel_payment_panic_no_auth(caller, payment_id) ==
    IF ~has_payment(payment_id) THEN "Payment not found"
    ELSE IF ~payments[payment_id].active THEN "Payment is already canceled"
    ELSE OK

\* cancel_payment: the first panic the call runs into, or OK
cancel_payment_panic(caller, payment_id) ==
    IF ~has_payment(payment_id) THEN "Payment not found"
    ELSE IF ~require_auth(caller, payments[payment_id].sender) THEN AuthFailure
    ELSE IF ~payments[payment_id].active THEN "Payment is already canceled"
    ELSE OK

\* A cancel that also clears the schedule of the payment it cancels.
cancel_payment_clears_schedule ==
    \E caller \in Addr, payment_id \in PaymentIdInputs :
        LET res == cancel_payment_panic(caller, payment_id)
        IN  /\ last' = [op |-> "cancel", caller |-> caller, id |-> payment_id, res |-> res]
            /\ IF res = OK
               THEN /\ payments' = [payments EXCEPT ![payment_id].active = FALSE,
                                                    ![payment_id].next_execution = 0]
                    /\ published' = <<[topic |-> "recur", kind |-> "canceled",
                                       payment_id |-> payment_id,
                                       sender |-> payments[payment_id].sender]>>
               ELSE /\ UNCHANGED payments
                    /\ published' = <<>>
            /\ UNCHANGED <<now, registered, config, bal, escrowVars, overflow_checks, payment_count,
                           runs, moved, stakes>>

cancel_payment ==
    \E caller \in Addr, payment_id \in PaymentIdInputs :
        LET res == cancel_payment_panic(caller, payment_id)
        IN  /\ last' = [op |-> "cancel", caller |-> caller, id |-> payment_id, res |-> res]
            /\ IF res = OK
               THEN /\ payments' = [payments EXCEPT ![payment_id].active = FALSE]
                    /\ published' = <<[topic |-> "recur", kind |-> "canceled",
                                       payment_id |-> payment_id,
                                       sender |-> payments[payment_id].sender]>>
               ELSE /\ UNCHANGED payments
                    /\ published' = <<>>
            /\ UNCHANGED <<now, registered, config, bal, escrowVars, overflow_checks, payment_count,
                           runs, moved, stakes>>

NoEscrows ==
    /\ escrows = <<>>
    /\ locked = [k \in EscrowKeys |->
                    [st |-> "never", beneficiary |-> "-", amount |-> 0, unlock_ts |-> 0]]

\* The scheduler right after deployment: no payment, no counter.
InitRecur ==
    /\ registered = "recurring"
    /\ now = 0
    /\ config = {}
    /\ bal = [h \in Holders |-> IF h \in Addr THEN 2 ELSE 0]
    /\ NoEscrows
    /\ overflow_checks \in BOOLEAN
    /\ payment_count = 0
    /\ payments = <<>>
    /\ runs = <<>>
    /\ moved = <<>>
    /\ stakes = <<>>
    /\ last = [op |-> "deploy", caller |-> "-", id |-> 0, res |-> OK]
    /\ published = <<>>

NextRecur == create_payment \/ execute_payment \/ cancel_payment \/ Tick

SpecRecur == InitRecur /\ [][NextRecur]_vars

\* One payment alice -> bob of 1 token, created with any interval > 0 and any
\* start_time of the timestamp width, at any time of the clock.
InitCatchUp ==
    /\ registered = "recurring"
    /\ now \in 0..MaxNow
    /\ config = {}
    /\ bal = [h \in Holders |-> IF h = "alice" THEN 2 ELSE 0]
    /\ NoEscrows
    /\ overflow_checks \in BOOLEAN
    /\ payment_count = 1
    /\ \E interval \in 1..U64Max, start_time \in 0..U64Max :
          payments = <<RecurringPayment("alice", "bob", TokenAddr, 1,
                                        interval, start_time, TRUE)>>
    /\ runs = <<0>>
    /\ moved = <<0>>
    /\ stakes = <<>>
    /\ last = [op |-> "create", caller |-> "alice", id |-> 1, res |-> OK]
    /\ published = <<[topic |-> "recur", kind |-> "created",
                      payment_id |-> 1, sender |-> "alice"]>>

NextCatchUp == execute_payment \/ cancel_payment \/ Tick

SpecCatchUp == InitCatchUp /\ [][NextCatchUp]_vars

-----------------------------------------------------------------------------
(* batch-rewards/src/gas.rs *)

validate_batch_reward_event(data) ==
    IF ~(data.recipients > 0)
    THEN "event validation: batch must have at least one recipient"
    ELSE IF ~(data.total_rewards > 0) THEN "event validation: total_rewards must be > 0"
    ELSE OK

BatchRewardEventData(recipients, total_rewards, timestamp) ==
    [topic |-> "BATCH", recipients |-> recipients, total_rewards |-> total_rewards,
     timestamp |-> timestamp]

\* Variant of compute_reward whose intermediate product wraps at 16 bits.
compute_reward_wrapping(balance, staked_at, current_time, rate) ==
    ((balance * rate * (current_time - staked_at)) % 65536) \div 10000

\* StakingContract::compute_reward: floor of balance * rate * elapsed over the
\* basis-point scale; the model's clock counts reward periods.
compute_reward(balance, staked_at, current_time, rate) ==
    (balance * rate * (current_time - staked_at)) \div 10000

\* StakeEntry::default()
StakeEntryDefault == [balance |-> 0, staked_at |-> 0]

\* storage().persistent().get(&DataKey::StakeEntry(staker)).unwrap_or_default()
get_stake_entry(store, staker) ==
    IF staker \in DOMAIN store THEN store[staker] ELSE StakeEntryDefault

\* storage().persistent().set(&DataKey::StakeEntry(staker), &entry)
set_stake_entry(store, staker, entry) ==
    [a \in DOMAIN store \cup {staker} |-> IF a = staker THEN entry ELSE store[a]]

\* the time-weighted reward both distribute_rewards and preview_rewards compute
time_reward(entry, rate) ==
    IF entry.balance > 0
    THEN compute_reward(entry.balance, entry.staked_at, now, rate)
    ELSE 0

\* distribute_rewards' loop body without the `total_user_reward <= 0` skip
distribute_step_no_reward_skip(acc, staker, bonus, rate) ==
    LET entry == get_stake_entry(acc.store, staker)
        total_user_reward == time_reward(entry, rate) + bonus
    IN  IF entry.balance = 0 /\ bonus = 0
        THEN [acc EXCEPT !.accrued = Append(@, 0), !.credited = Append(@, 0)]
        ELSE [store |-> set_stake_entry(acc.store, staker,
                            [balance |-> entry.balance + total_user_reward,
                             staked_at |-> now]),
              total_rewards |-> acc.total_rewards + total_user_reward,
              recipients |-> acc.recipients + 1,
              writes |-> acc.writes + 1,
              accrued |-> Append(acc.accrued, time_reward(entry, rate)),
              credited |-> Append(acc.credited, total_user_reward)]

\* Variant of distribute_step that skips only a total reward of exactly zero.
distribute_step_skips_zero_only(acc, staker, bonus, rate) ==
    LET entry == get_stake_entry(acc.store, staker)
        total_user_reward == time_reward(entry, rate) + bonus
    IN  IF entry.balance = 0 /\ bonus = 0
        THEN [acc EXCEPT !.accrued = Append(@, 0), !.credited = Append(@, 0)]
        ELSE IF total_user_reward = 0
        THEN [acc EXCEPT !.accrued = Append(@, time_reward(entry, rate)),
                         !.credited = Append(@, 0)]
        ELSE [store |-> set_stake_entry(acc.store, staker,
                            [balance |-> entry.balance + total_user_reward,
                             staked_at |-> now]),
              total_rewards |-> acc.total_rewards + total_user_reward,
              recipients |-> acc.recipients + 1,
              writes |-> acc.writes + 1,
              accrued |-> Append(acc.accrued, time_reward(entry, rate)),
              credited |-> Append(acc.credited, total_user_reward)]

\* Variant of distribute_step that leaves staked_at as it was read.
distribute_step_keeps_window(acc, staker, bonus, rate) ==
    LET entry == get_stake_entry(acc.store, staker)
        total_user_reward == time_reward(entry, rate) + bonus
    IN  IF entry.balance = 0 /\ bonus = 0
        THEN [acc EXCEPT !.accrued = Append(@, 0), !.credited = Append(@, 0)]
        ELSE IF total_user_reward <= 0
        THEN [acc EXCEPT !.accrued = Append(@, time_reward(entry, rate)),
                         !.credited = Append(@, 0)]
        ELSE [store |-> set_stake_entry(acc.store, staker,
                            [balance |-> entry.balance + total_user_reward,
                             staked_at |-> entry.staked_at]),
              total_rewards |-> acc.total_rewards + total_user_reward,
              recipients |-> acc.recipients + 1,
              writes |-> acc.writes + 1,
              accrued |-> Append(acc.accrued, time_reward(entry, rate)),
              credited |-> Append(acc.credited, total_user_reward)]

\* Variant of distribute_step that credits the bonus without the time reward.
distribute_step_bonus_only(acc, staker, bonus, rate) ==
    LET entry == get_stake_entry(acc.store, staker)
        total_user_reward == time_reward(entry, rate) + bonus
    IN  IF entry.balance = 0 /\ bonus = 0
        THEN [acc EXCEPT !.accrued = Append(@, 0), !.credited = Append(@, 0)]
        ELSE IF total_user_reward <= 0
        THEN [acc EXCEPT !.accrued = Append(@, time_reward(entry, rate)),
                         !.credited = Append(@, 0)]
        ELSE [store |-> set_stake_entry(acc.store, staker,
                            [balance |-> entry.balance + bonus, staked_at |-> now]),
              total_rewards |-> acc.total_rewards + total_user_reward,
              recipients |-> acc.recipients + 1,
              writes |-> acc.writes + 1,
              accrued |-> Append(acc.accrued, time_reward(entry, rate)),
              credited |-> Append(acc.credited, total_user_reward)]

\* distribute_rewards: one iteration of the main loop over the running
\* [store, total_rewards, recipients, writes], with the time_reward computed
\* (accrued) and the total_user_reward folded into the balance (credited) at
\* each position so far, 0 where the position was skipped before that point
distribute_step(acc, staker, bonus, rate) ==
    LET entry == get_stake_entry(acc.store, staker)
        total_user_reward == time_reward(entry, rate) + bonus
    IN  IF entry.balance = 0 /\ bonus = 0
        THEN [acc EXCEPT !.accrued = Append(@, 0), !.credited = Append(@, 0)]
        ELSE IF total_user_reward <= 0
        THEN [acc EXCEPT !.accrued = Append(@, time_reward(entry, rate)),
                         !.credited = Append(@, 0)]
        ELSE [store |-> set_stake_entry(acc.store, staker,
                            [balance |-> entry.balance + total_user_reward,
                             staked_at |-> now]),
              total_rewards |-> acc.total_rewards + total_user_reward,
              recipients |-> acc.recipients + 1,
              writes |-> acc.writes + 1,
              accrued |-> Append(acc.accrued, time_reward(entry, rate)),
              credited |-> Append(acc.credited, total_user_reward)]

\* distribute_rewards: the main loop, for i in 0..len
RECURSIVE distribute_loop(_, _, _, _, _)
distribute_loop(acc, stakers, bonus_amounts, i, rate) ==
    IF i > Len(stakers) THEN acc
    ELSE distribute_loop(distribute_step(acc, stakers[i], bonus_amounts[i], rate),
                         stakers, bonus_amounts, i + 1, rate)

\* distribute_rewards: the loop's result from the stored state
distribute_result(stakers, bonus_amounts, rate) ==
    distribute_loop([store |-> stakes, total_rewards |-> 0, recipients |-> 0, writes |-> 0,
                     accrued |-> <<>>, credited |-> <<>>],
                    stakers, bonus_amounts, 1, rate)

\* distribute_rewards: the events the call publishes after the loop
distribute_events(result) ==
    IF result.recipients > 0
    THEN <<BatchRewardEventData(result.recipients, result.total_rewards, now)>>
    ELSE <<>>

\* Variant of distribute_rewards_panic that lacks the empty-list assert.
distribute_rewards_panic_accepts_empty(caller, admin, stakers, bonus_amounts) ==
    IF ~require_auth(caller, admin) THEN AuthFailure
    ELSE IF Len(stakers) # Len(bonus_amounts)
         THEN "stakers and bonus_amounts must be the same length"
    ELSE IF config = {} THEN "staking contract not initialised"
    ELSE IF \E c \in config : c.admin # admin THEN "caller is not the contract admin"
    ELSE LET c == CHOOSE c \in config : TRUE
             result == distribute_result(stakers, bonus_amounts, c.reward_rate)
         IN  IF result.recipients > 0
             THEN validate_batch_reward_event(
                      BatchRewardEventData(result.recipients, result.total_rewards, now))
             ELSE OK

\* Variant of distribute_rewards_panic that lacks the config.admin assert.
distribute_rewards_panic_no_admin_check(caller, admin, stakers, bonus_amounts) ==
    IF ~require_auth(caller, admin) THEN AuthFailure
    ELSE IF Len(stakers) # Len(bonus_amounts)
         THEN "stakers and bonus_amounts must be the same length"
    ELSE IF stakers = <<>> THEN "staker list must not be empty"
    ELSE IF config = {} THEN "staking contract not initialised"
    ELSE LET c == CHOOSE c \in config : TRUE
             result == distribute_result(stakers, bonus_amounts, c.reward_rate)
         IN  IF result.recipients > 0
             THEN validate_batch_reward_event(
                      BatchRewardEventData(result.recipients, result.total_rewards, now))
             ELSE OK

\* distribute_rewards: the first panic the call runs into, or OK
distribute_rewards_panic(caller, admin, stakers, bonus_amounts) ==
    IF ~require_auth(caller, admin) THEN AuthFailure
    ELSE IF Len(stakers) # Len(bonus_amounts)
         THEN "stakers and bonus_amounts must be the same length"
    ELSE IF stakers = <<>> THEN "staker list must not be empty"
    ELSE IF config = {} THEN "staking contract not initialised"
    ELSE IF \E c \in config : c.admin # admin THEN "caller is not the contract admin"
    ELSE LET c == CHOOSE c \in config : TRUE
             result == distribute_result(stakers, bonus_amounts, c.reward_rate)
         IN  IF result.recipients > 0
             THEN validate_batch_reward_event(
                      BatchRewardEventData(result.recipients, result.total_rewards, now))
             ELSE OK

\* Lists the batch calls are tried with
BonusAmounts == {-1, 0, 6}
BatchLengths == 0..2
ListsOf(S) == UNION {[1..n -> S] : n \in BatchLengths}
BatchCalls ==
    {c \in [stakers : ListsOf(Addr), bonus_amounts : ListsOf(BonusAmounts)] :
        \/ Len(c.stakers) = Len(c.bonus_amounts)
        \/ c.stakers \in {<<>>, <<"alice">>} /\ c.bonus_amounts \in {<<>>, <<0>>, <<6, 0>>}}

distribute_rewards ==
    \E caller \in Addr, admin \in Addr, call \in BatchCalls :
        LET stakers == call.stakers
            bonus_amounts == call.bonus_amounts
            res == distribute_rewards_panic(caller, admin, stakers, bonus_amounts)
        IN  IF res = OK
            THEN LET c == CHOOSE c \in config : TRUE
                     result == distribute_result(stakers, bonus_amounts, c.reward_rate)
                 IN  /\ \A a \in DOMAIN result.store : result.store[a].balance <= MaxBalance
                     /\ stakes' = result.store
                     /\ published' = distribute_events(result)
                     /\ last' = [op |-> "distribute", caller |-> caller, admin |-> admin,
                                 stakers |-> stakers, bonus_amounts |-> bonus_amounts,
                                 res |-> res, writes |-> result.writes]
                     /\ UNCHANGED <<now, registered, config, bal, escrowVars, recurVars>>
            ELSE /\ last' = [op |-> "distribute", caller |-> caller, admin |-> admin,
                             res |-> res, writes |-> 0]
                 /\ published' = <<>>
                 /\ UNCHANGED <<now, registered, config, bal, escrowVars, recurVars, stakes>>

\* preview_rewards: the parallel vector of time-weighted rewards
preview_rewards(stakers) ==
    LET c == CHOOSE c \in config : TRUE
    IN  [i \in 1..Len(stakers) |->
            LET entry == get_stake_entry(stakes, stakers[i])
            IN  IF entry.balance > 0
                THEN compute_reward(entry.balance, entry.staked_at, now, c.reward_rate)
                ELSE 0]

\* The settlement contract right after deployment and initialize: no stake entry.
InitBatch ==
    /\ registered = "batch"
    /\ now = 0
    /\ config \in {{}, {Config}}
    /\ bal = [h \in Holders |-> 0]
    /\ NoEscrows
    /\ overflow_checks = TRUE
    /\ payment_count = 0
    /\ payments = <<>>
    /\ runs = <<>>
    /\ moved = <<>>
    /\ stakes = <<>>
    /\ last = [op |-> "deploy", res |-> OK]
    /\ published = <<>>

NextBatch == distribute_rewards \/ Tick

SpecBatch == InitBatch /\ [][NextBatch]_vars

-----------------------------------------------------------------------------
(* The staking contract: initialize, stake, unstake, get_stake             *)
(* (exercised by contracts/gas-optimization.rs; events of events/src/gas.rs) *)

validate_initialize_event(data) ==
    IF ~(data.reward_rate > 0) THEN "event validation: reward_rate must be > 0"
    ELSE IF ~(data.min_stake > 0) THEN "event validation: min_stake must be > 0"
    ELSE OK

validate_stake_event(data) ==
    IF ~(data.amount > 0) THEN "event validation: stake amount must be > 0"
    ELSE IF ~(data.total >= data.amount)
         THEN "event validation: total < amount - impossible state"
    ELSE OK

validate_unstake_event(data) ==
    IF ~(data.amount > 0) THEN "event validation: unstake amount must be > 0"
    ELSE IF ~(data.reward >= 0) THEN "event validation: reward cannot be negative"
    ELSE IF ~(data.remaining >= 0) THEN "event validation: remaining cannot be negative"
    ELSE OK

InitializeEventData(admin, reward_rate, min_stake, timestamp) ==
    [topic |-> "INIT", admin |-> admin, reward_rate |-> reward_rate,
     min_stake |-> min_stake, timestamp |-> timestamp]

StakeEventData(staker, amount, total, timestamp) ==
    [topic |-> "STAKE", staker |-> staker, amount |-> amount, total |-> total,
     timestamp |-> timestamp]

UnstakeEventData(staker, amount, reward, remaining, timestamp) ==
    [topic |-> "UNSTK", staker |-> staker, amount |-> amount, reward |-> reward,
     remaining |-> remaining, timestamp |-> timestamp]

\* Config as initialize stores it
StakingConfig(admin, token, reward_rate, min_stake) ==
    [admin |-> admin, token |-> token, reward_rate |-> reward_rate, min_stake |-> min_stake]

initialize_panic_overwrites(admin, token, reward_rate, min_stake) ==
    validate_initialize_event(InitializeEventData(admin, reward_rate, min_stake, now))

\* initialize: the first panic of the call, OK when it runs to completion
initialize_panic(admin, token, reward_rate, min_stake) ==
    IF config # {} THEN "already initialised"
    ELSE validate_initialize_event(InitializeEventData(admin, reward_rate, min_stake, now))

\* the panics of the staking notifications' validators
StakingValidationPanics ==
    {"event validation: reward_rate must be > 0",
     "event validation: min_stake must be > 0",
     "event validation: stake amount must be > 0",
     "event validation: total < amount - impossible state",
     "event validation: unstake amount must be > 0",
     "event validation: reward cannot be negative",
     "event validation: remaining cannot be negative"}

\* Variant of staking_traps in which a notification that fails its validation
\* is skipped and the call returns.
staking_traps_unless_validation(res) == res \notin {OK} \cup StakingValidationPanics

\* initialize, stake, unstake: every way the call stops short aborts the whole
\* operation, a failing validation of the notification included.
staking_traps(res) == res # OK

\* initialize: the configuration the call has reached when it stops with res;
\* the notification is validated after the configuration is stored.
initialize_reached_config(admin, token, reward_rate, min_stake, res) ==
    IF res \in StakingValidationPanics
    THEN {StakingConfig(admin, token, reward_rate, min_stake)}
    ELSE config

RewardRates == {0, 1200}
MinStakes == {100}

initialize ==
    \E admin \in Addr, reward_rate \in RewardRates, min_stake \in MinStakes :
        LET res == initialize_panic(admin, TokenAddr, reward_rate, min_stake)
        IN  /\ last' = [op |-> "initialize", caller |-> admin, staker |-> admin,
                        amount |-> 0, res |-> res]
            /\ IF res = OK
               THEN /\ config' = {StakingConfig(admin, TokenAddr, reward_rate, min_stake)}
                    /\ published' = <<InitializeEventData(admin, reward_rate, min_stake, now)>>
               ELSE /\ config' = invocation_result(
                                    config,
                                    initialize_reached_config(admin, TokenAddr, reward_rate,
                                                              min_stake, res),
                                    staking_traps(res))
                    /\ published' = <<>>
            /\ UNCHANGED <<now, registered, bal, escrowVars, recurVars, stakes>>

\* the reward accrued by an entry since its last mutation
accrued_reward(entry, rate) == compute_reward(entry.balance, entry.staked_at, now, rate)

stake_entry_without_accrual(entry, amount, rate) ==
    [balance |-> entry.balance + amount, staked_at |-> now]

\* stake: the entry after folding the accrued reward and adding `amount`
stake_entry(entry, amount, rate) ==
    [balance |-> entry.balance + accrued_reward(entry, rate) + amount, staked_at |-> now]

\* the entry stake reads: an absent record counts as balance 0, staked_at = now
stake_read(staker) ==
    IF staker \in DOMAIN stakes THEN stakes[staker] ELSE [balance |-> 0, staked_at |-> now]

stake_panic_no_minimum(caller, staker, amount) ==
    IF ~require_auth(caller, staker) THEN AuthFailure
    ELSE IF config = {} THEN "staking contract not initialised"
    ELSE LET c == CHOOSE c \in config : TRUE
             entry == stake_entry(stake_read(staker), amount, c.reward_rate)
         IN  validate_stake_event(StakeEventData(staker, amount, entry.balance, now))

\* stake: the first panic of the call, OK when it runs to completion
stake_panic(caller, staker, amount) ==
    IF ~require_auth(caller, staker) THEN AuthFailure
    ELSE IF config = {} THEN "staking contract not initialised"
    ELSE LET c == CHOOSE c \in config : TRUE
             entry == stake_entry(stake_read(staker), amount, c.reward_rate)
         IN  IF amount < c.min_stake THEN "amount below minimum stake"
             ELSE validate_stake_event(StakeEventData(staker, amount, entry.balance, now))

\* The accounts that stake, and the amounts stake is tried with
Stakers == {"alice"}
StakeAmounts == {50, 100}

stake ==
    \E caller \in Addr, staker \in Stakers, amount \in StakeAmounts :
        LET res == stake_panic(caller, staker, amount)
        IN  /\ last' = [op |-> "stake", caller |-> caller, staker |-> staker,
                        amount |-> IF res = OK THEN amount ELSE 0, res |-> res]
            /\ IF res = OK
               THEN LET c == CHOOSE c \in config : TRUE
                        entry == stake_entry(stake_read(staker), amount, c.reward_rate)
                    IN  /\ entry.balance <= MaxStaked
                        /\ stakes' = set_stake_entry(stakes, staker, entry)
                        /\ published' = <<StakeEventData(staker, amount, entry.balance, now)>>
               ELSE /\ stakes' = stakes
                    /\ published' = <<>>
            /\ UNCHANGED <<now, registered, config, bal, escrowVars, recurVars>>

\* unstake: the balance `amount` is checked against, accrued reward folded in
balance_after_accrual(entry, rate) == entry.balance + accrued_reward(entry, rate)

\* Variant of unstake_store that keeps the accrued reward in the record.
unstake_store_keeps_reward(staker, amount, rate) ==
    LET remaining == balance_after_accrual(stakes[staker], rate) - amount
    IN  IF remaining = 0
        THEN [a \in DOMAIN stakes \ {staker} |-> stakes[a]]
        ELSE set_stake_entry(stakes, staker, [balance |-> remaining, staked_at |-> now])

\* unstake: the store after the withdrawal: `amount` is taken from the stored
\* balance (a full unstake of the principal leaves 0) and the window restarts;
\* a record left with nothing is removed
unstake_store(staker, amount, rate) ==
    LET remaining == stakes[staker].balance - amount
    IN  IF remaining = 0
        THEN [a \in DOMAIN stakes \ {staker} |-> stakes[a]]
        ELSE set_stake_entry(stakes, staker, [balance |-> remaining, staked_at |-> now])

unstake_panic_no_balance_check(caller, staker, amount) ==
    IF ~require_auth(caller, staker) THEN AuthFailure
    ELSE IF config = {} THEN "staking contract not initialised"
    ELSE IF staker \notin DOMAIN stakes THEN "no stake found"
    ELSE LET c == CHOOSE c \in config : TRUE
             reward == accrued_reward(stakes[staker], c.reward_rate)
         IN  IF amount > 0 /\ ~can_transfer(bal, Contract, amount + reward)
             THEN TransferFailure
             ELSE IF ~(amount > 0) THEN "event validation: unstake amount must be > 0"
             ELSE OK

\* unstake: the first panic of the call, OK when it runs to completion
unstake_panic(caller, staker, amount) ==
    IF ~require_auth(caller, staker) THEN AuthFailure
    ELSE IF config = {} THEN "staking contract not initialised"
    ELSE IF staker \notin DOMAIN stakes THEN "no stake found"
    ELSE LET c == CHOOSE c \in config : TRUE
             reward == accrued_reward(stakes[staker], c.reward_rate)
             available == balance_after_accrual(stakes[staker], c.reward_rate)
         IN  IF amount > available THEN "insufficient stake"
             ELSE IF ~can_transfer(bal, Contract, amount + reward) THEN TransferFailure
             ELSE validate_unstake_event(
                      UnstakeEventData(staker, amount, reward,
                                       stakes[staker].balance - amount, now))

\* Variant of unstake_transfer that pays the principal only.
unstake_transfer_principal_only(staker, amount, rate) ==
    transfer(bal, Contract, staker, amount)

\* unstake: `amount` leaves the contract for the staker together with the
\* reward accrued since the last mutation
unstake_transfer(staker, amount, rate) ==
    transfer(bal, Contract, staker, amount + accrued_reward(stakes[staker], rate))

\* unstake: the records the call has reached when it stops with res; the
\* notification is validated after the write and the transfer.
unstake_reached_store(staker, amount, res) ==
    IF res \in StakingValidationPanics
    THEN unstake_store(staker, amount, (CHOOSE c \in config : TRUE).reward_rate)
    ELSE stakes

\* unstake: the balances the call has reached when it stops with res
unstake_reached_balances(staker, amount, res) ==
    IF res \in StakingValidationPanics
    THEN unstake_transfer(staker, amount, (CHOOSE c \in config : TRUE).reward_rate)
    ELSE bal

UnstakeAmounts == {0, 100, 112}

unstake ==
    \E caller \in Addr, staker \in Stakers, amount \in UnstakeAmounts :
        LET res == unstake_panic(caller, staker, amount)
        IN  /\ last' = [op |-> "unstake", caller |-> caller, staker |-> staker,
                        amount |-> IF res = OK THEN amount ELSE 0, res |-> res]
            /\ IF res = OK
               THEN LET c == CHOOSE c \in config : TRUE
                        reward == accrued_reward(stakes[staker], c.reward_rate)
                    IN  /\ stakes' = unstake_store(staker, amount, c.reward_rate)
                        /\ bal' = unstake_transfer(staker, amount, c.reward_rate)
                        /\ published' =
                             <<UnstakeEventData(staker, amount, reward,
                                                stakes[staker].balance - amount, now)>>
               ELSE /\ stakes' = invocation_result(
                                    stakes, unstake_reached_store(staker, amount, res),
                                    staking_traps(res))
                    /\ bal' = invocation_result(
                                 bal, unstake_reached_balances(staker, amount, res),
                                 staking_traps(res))
                    /\ published' = <<>>
            /\ UNCHANGED <<now, registered, config, escrowVars, recurVars>>

\* get_stake: the stored balance, 0 for an account without a record
get_stake(staker) ==
    IF staker \in DOMAIN stakes THEN stakes[staker].balance ELSE 0

\* The staking contract right after registration: not initialised, no record,
\* the reward pool held by the contract.
InitStaking ==
    /\ registered = "staking"
    /\ now = 0
    /\ config = {}
    /\ bal = [h \in Holders |-> IF h = Contract THEN MaxStaked ELSE 0]
    /\ NoEscrows
    /\ overflow_checks = TRUE
    /\ payment_count = 0
    /\ payments = <<>>
    /\ runs = <<>>
    /\ moved = <<>>
    /\ stakes = <<>>
    /\ last = [op |-> "deploy", res |-> OK]
    /\ published = <<>>

NextStaking == initialize \/ stake \/ unstake \/ Tick

SpecStaking == InitStaking /\ [][NextStaking]_vars

-----------------------------------------------------------------------------
(* The read-only entry points, as invocations *)

get_escrow_storage_take(depositor, escrow_id) ==
    [k \in DOMAIN escrows \ {EscrowKey(depositor, escrow_id)} |-> escrows[k]]

\* get_escrow: the persistent storage after .get(&EscrowKey::Entry(depositor, escrow_id))
get_escrow_storage(depositor, escrow_id) == escrows

get_escrow_call ==
    \E depositor \in Addr, escrow_id \in EscrowIds :
        /\ last' = [op |-> "get_escrow", caller |-> "-",
                    key |-> EscrowKey(depositor, escrow_id), res |-> OK,
                    ret |-> get_escrow(depositor, escrow_id)]
        /\ escrows' = get_escrow_storage(depositor, escrow_id)
        /\ published' = <<>>
        /\ UNCHANGED <<now, registered, config, bal, locked, recurVars, stakes>>

\* get_payment: .expect("Payment not found") panics on an id never stored
get_payment_call ==
    \E payment_id \in PaymentIdInputs :
        /\ last' = [op |-> "get_payment", caller |-> "-", id |-> payment_id,
                    res |-> IF has_payment(payment_id) THEN OK ELSE "Payment not found",
                    ret |-> get_payment(payment_id)]
        /\ published' = <<>>
        /\ UNCHANGED <<now, registered, config, bal, escrowVars, recurVars, stakes>>

get_stake_call ==
    \E staker \in Addr :
        /\ last' = [op |-> "get_stake", caller |-> "-", staker |-> staker,
                    amount |-> 0, res |-> OK, ret |-> get_stake(staker)]
        /\ published' = <<>>
        /\ UNCHANGED <<now, registered, config, bal, escrowVars, recurVars, stakes>>

PreviewInputs == {<<>>, <<"alice">>, <<"bob", "alice">>}

\* preview_rewards: .expect("staking contract not initialised") panics without a Config
preview_rewards_call ==
    \E stakers \in PreviewInputs :
        LET res == IF config = {} THEN "staking contract not initialised" ELSE OK
        IN  /\ last' = [op |-> "preview_rewards", caller |-> "-", stakers |-> stakers,
                        res |-> res,
                        ret |-> IF res = OK THEN preview_rewards(stakers) ELSE <<>>]
            /\ published' = <<>>
            /\ UNCHANGED <<now, registered, config, bal, escrowVars, recurVars, stakes>>

\* The escrow contract, its Config stored, holding the entry of
\* lock(alice, bob, 1, 1, 1) made at time 0.
InitEscrowHeld ==
    /\ registered = "escrow"
    /\ now = 0
    /\ config = {Config}
    /\ bal = [h \in Holders |-> IF h = "bob" THEN 0 ELSE 1]
    /\ escrows = (EscrowKey("alice", 1) :> EscrowEntry("alice", "bob", 1, 1))
    /\ locked = [k \in EscrowKeys |->
                    IF k = EscrowKey("alice", 1)
                    THEN [st |-> "held", beneficiary |-> "bob", amount |-> 1, unlock_ts |-> 1]
                    ELSE [st |-> "never", beneficiary |-> "-", amount |-> 0, unlock_ts |-> 0]]
    /\ last = [op |-> "lock", caller |-> "alice", key |-> EscrowKey("alice", 1), res |-> OK]
    /\ published = <<EscrowLockedEventData("alice", "bob", 1, 1, 0)>>
    /\ overflow_checks = TRUE
    /\ payment_count = 0
    /\ payments = <<>>
    /\ runs = <<>>
    /\ moved = <<>>
    /\ stakes = <<>>

\* The settlement contract after distribute_rewards(alice, <<alice>>, <<6>>) ran
\* twice at time 0.
InitBatchCredited ==
    /\ registered = "batch"
    /\ now = 0
    /\ config = {Config}
    /\ bal = [h \in Holders |-> 0]
    /\ NoEscrows
    /\ overflow_checks = TRUE
    /\ payment_count = 0
    /\ payments = <<>>
    /\ runs = <<>>
    /\ moved = <<>>
    /\ stakes = ("alice" :> [balance |-> 12, staked_at |-> 0])
    /\ last = [op |-> "distribute", caller |-> "alice", admin |-> "alice",
               stakers |-> <<"alice">>, bonus_amounts |-> <<6>>, res |-> OK, writes |-> 1]
    /\ published = <<BatchRewardEventData(1, 6, 0)>>

InitReads == InitEscrowHeld \/ InitCatchUp \/ InitBatchCredited \/ InitStaking

NextReads ==
    \/ registered = "escrow" /\ get_escrow_call
    \/ registered = "escrow" /\ release
    \/ registered = "recurring" /\ get_payment_call
    \/ registered = "recurring" /\ execute_payment
    \/ registered = "recurring" /\ cancel_payment
    \/ registered = "batch" /\ preview_rewards_call
    \/ registered = "staking" /\ get_stake_call
    \/ registered = "staking" /\ initialize
    \/ registered = "staking" /\ stake
    \/ registered = "staking" /\ unstake
    \/ Tick

SpecReads == InitReads /\ [][NextReads]_vars

-----------------------------------------------------------------------------
(* The reward calculator on its own *)

RewardBalances == 0..12 \cup {100, 1000, 10000}

\* compute_reward applied to a balance, an accrual window and a rate
compute_reward_call ==
    \E balance \in RewardBalances, staked_at \in 0..MaxNow, rate \in RewardRates \ {0} :
        \E current_time \in staked_at..MaxNow :
            /\ last' = [op |-> "compute_reward", balance |-> balance,
                        staked_at |-> staked_at, current_time |-> current_time,
                        rate |-> rate, res |-> OK,
                        ret |-> compute_reward(balance, staked_at, current_time, rate)]
            /\ UNCHANGED <<now, registered, config, bal, escrowVars, recurVars, stakes,
                           published>>

NextReward == compute_reward_call \/ initialize \/ Tick

SpecReward == InitStaking /\ [][NextReward]_vars

-----------------------------------------------------------------------------
(* The operations that change a stake balance *)

InitAccrual == InitStaking \/ InitBatch

NextAccrual ==
    \/ registered = "staking" /\ initialize
    \/ registered = "staking" /\ stake
    \/ registered = "staking" /\ unstake
    \/ registered = "batch" /\ distribute_rewards
    \/ Tick

SpecAccrual == InitAccrual /\ [][NextAccrual]_vars

-----------------------------------------------------------------------------
(* The four contracts, each registered in a ledger of its own *)

InitSystem == InitEscrow \/ InitRecur \/ InitBatch \/ InitStaking

NextSystem ==
    \/ registered = "escrow" /\ lock
    \/ registered = "escrow" /\ release
    \/ registered = "recurring" /\ create_payment
    \/ registered = "recurring" /\ execute_payment
    \/ registered = "recurring" /\ cancel_payment
    \/ registered = "batch" /\ distribute_rewards
    \/ registered = "staking" /\ initialize
    \/ registered = "staking" /\ stake
    \/ registered = "staking" /\ unstake
    \/ Tick

SpecSystem == InitSystem /\ [][NextSystem]_vars

-----------------------------------------------------------------------------
(* Escrow properties *)

\* C1: a successful release of an escrow that a successful lock created happens
\* at a time >= unlock_ts, leaves get_escrow absent, and moves exactly the locked
\* amount from the contract's custody to the beneficiary given at lock time,
\* whoever the caller is.
C1_ReleasePaysLockedBeneficiary ==
    [][(last'.op = "release" /\ last'.res = OK) =>
        LET k == last'.key
            l == locked[k]
        IN  /\ l.st = "held"
            /\ now >= l.unlock_ts
            /\ \A d \in Addr, i \in EscrowIds :
                    EscrowKey(d, i) = k => get_escrow(d, i)' = {}
            /\ bal'[Contract] = bal[Contract] - l.amount
            /\ bal'[l.beneficiary] = bal[l.beneficiary] + l.amount
            /\ \A a \in Addr \ {l.beneficiary} : bal'[a] = bal[a]
      ]_vars

\* C1 witness: a release succeeded, called by someone who is neither the
\* depositor nor the beneficiary, and the entry is gone.
C1_Witness ==
    /\ last.op = "release" /\ last.res = OK
    /\ last.caller # last.key[1]
    /\ Len(published) = 1 /\ published[1].beneficiary # last.caller
    /\ published[1].amount = 2
    /\ get_escrow(last.key[1], last.key[2]) = {}

\* C2: release before unlock_ts fails as still locked, moves no funds and leaves
\* the entry as it was.
C2_EarlyReleaseFails ==
    [][(last'.op = "release" /\ has_escrow(last'.key)
            /\ now < escrows[last'.key].unlock_ts) =>
        /\ last'.res = "escrow is still locked"
        /\ bal' = bal
        /\ escrows' = escrows
        /\ \A d \in Addr, i \in EscrowIds : get_escrow(d, i)' = get_escrow(d, i)
        /\ published' = <<>>
      ]_vars

\* C2 witness: a release was refused as still locked and the entry is in place.
C2_Witness ==
    /\ last.op = "release" /\ last.res = "escrow is still locked"
    /\ has_escrow(last.key) /\ now < escrows[last.key].unlock_ts
    /\ bal[Contract] = escrows[last.key].amount

\* C8: lock under a key that already holds an entry fails, transfers nothing and
\* leaves every existing entry unchanged; no lock call overwrites an entry.
C8_DuplicateLockFails ==
    [][(last'.op = "lock") =>
        /\ has_escrow(last'.key) =>
              (last'.res # OK /\ bal' = bal /\ escrows' = escrows /\ published' = <<>>)
        /\ \A k \in DOMAIN escrows : k \in DOMAIN escrows' /\ escrows'[k] = escrows[k]
      ]_vars

\* C8 witness: an authorised, otherwise valid lock was refused as a duplicate and
\* the entry under its key is the one locked before.
C8_Witness ==
    /\ last.op = "lock" /\ last.res = "escrow ID already in use"
    /\ has_escrow(last.key)
    /\ locked[last.key].st = "held"
    /\ escrows[last.key].amount = locked[last.key].amount

\* C9: once an escrow was released, a further release with no lock in between
\* fails as not found and pays nothing; a holder's balance grows only by a
\* release that consumes a held lock, by that lock's amount, to its beneficiary.
C9_ReleaseOnlyOnce ==
    [][/\ (last'.op = "release" /\ locked[last'.key].st # "held") =>
              (last'.res = "escrow entry not found" /\ bal' = bal /\ escrows' = escrows)
       /\ \A a \in Addr : bal'[a] > bal[a] =>
              /\ last'.op = "release" /\ last'.res = OK
              /\ locked[last'.key].st = "held"
              /\ locked'[last'.key].st = "paid"
              /\ last'.key \notin DOMAIN escrows'
              /\ locked[last'.key].beneficiary = a
              /\ bal'[a] - bal[a] = locked[last'.key].amount
      ]_vars

\* C9 witness: a second release of an already paid escrow was refused.
C9_Witness ==
    /\ last.op = "release" /\ last.res = "escrow entry not found"
    /\ locked[last.key].st = "paid"
    /\ bal[Contract] = 0

-----------------------------------------------------------------------------
(* Recurring payment properties *)

ExecutedOk(l) == l.op = "execute" /\ l.res = OK

\* C3: after every successful execute_payment at time now the stored
\* next_execution is strictly greater than now and than its previous value, for
\* every start_time, interval > 0 and lateness of the timestamp width.
C3_NextExecutionAfterNow ==
    [][ExecutedOk(last') =>
        /\ payments'[last'.id].next_execution > now
        /\ payments'[last'.id].next_execution > payments[last'.id].next_execution
      ]_vars

\* Companion to C3: the same statement for the calls whose u64 arithmetic stays
\* within the type (every successful call of a build with overflow checks).
NextExecutionAfterNowUnlessWrapped ==
    [][(ExecutedOk(last')
            /\ ~advance_overflows(now, payments[last'.id].next_execution,
                                  payments[last'.id].interval)) =>
        /\ payments'[last'.id].next_execution > now
        /\ payments'[last'.id].next_execution > payments[last'.id].next_execution
      ]_vars

\* C4: a successful execute_payment at time now with stored next_execution s and
\* interval d stores next_execution = s + (floor((now - s) / d) + 1) * d.
C4_CatchUpFormula ==
    [][ExecutedOk(last') =>
        LET s == payments[last'.id].next_execution
            d == payments[last'.id].interval
        IN  payments'[last'.id].next_execution = s + ((now - s) \div d + 1) * d
      ]_vars

\* Companion to C4: the formula holds for the calls whose u64 arithmetic stays
\* within the type.
CatchUpFormulaUnlessWrapped ==
    [][(ExecutedOk(last')
            /\ ~advance_overflows(now, payments[last'.id].next_execution,
                                  payments[last'.id].interval)) =>
        LET s == payments[last'.id].next_execution
            d == payments[last'.id].interval
        IN  payments'[last'.id].next_execution = s + ((now - s) \div d + 1) * d
      ]_vars

\* C5: a successful execute_payment moves exactly the recorded amount from the
\* recorded sender to the recorded recipient, once, however many intervals were
\* missed; nothing else moves tokens; the total moved for a payment is its
\* amount times the number of its successful executions.
C5_OneTransferPerExecution ==
    [][/\ ExecutedOk(last') =>
            LET p == payments[last'.id]
            IN  /\ now >= p.next_execution
                /\ runs'[last'.id] = runs[last'.id] + 1
                /\ p.sender # p.recipient =>
                      /\ bal'[p.sender] = bal[p.sender] - p.amount
                      /\ bal'[p.recipient] = bal[p.recipient] + p.amount
                /\ \A h \in Holders \ {p.sender, p.recipient} : bal'[h] = bal[h]
       /\ ~ExecutedOk(last') => bal' = bal
       /\ \A id \in DOMAIN payments' : moved'[id] = payments'[id].amount * runs'[id]
      ]_vars

\* C5 witness: one execution that caught up three intervals of 1 at once moved
\* the amount once.
C5_Witness ==
    /\ ExecutedOk(last)
    /\ payments[last.id].interval = 1
    /\ payments[last.id].next_execution = 3
    /\ runs[last.id] = 1
    /\ moved[last.id] = payments[last.id].amount
    /\ bal[payments[last.id].recipient] = 2 + payments[last.id].amount

\* C6: cancel_payment succeeds only on an active payment and deactivates it; no
\* step reactivates or deletes a payment; a cancel of a canceled payment fails
\* and leaves every record unchanged.
C6_CancelOnce ==
    [][\A id \in DOMAIN payments :
        /\ id \in DOMAIN payments'
        /\ ~payments[id].active => ~payments'[id].active
        /\ (last'.op = "cancel" /\ last'.id = id /\ last'.res = OK) =>
              (payments[id].active /\ ~payments'[id].active)
        /\ (last'.op = "cancel" /\ last'.id = id /\ ~payments[id].active) =>
              (last'.res # OK /\ payments' = payments /\ published' = <<>>)
      ]_vars

\* C6 witness: the sender's second cancel of a payment was refused.
C6_Witness ==
    /\ last.op = "cancel" /\ last.res = "Payment is already canceled"
    /\ last.caller = payments[last.id].sender
    /\ ~payments[last.id].active

\* C7: once a payment is canceled, execute_payment on it fails, no transfer is
\* made for it and its next_execution stays; execute_payment on an id that was
\* never created fails.
C7_CanceledIsTerminal ==
    [][/\ \A id \in DOMAIN payments : ~payments[id].active =>
            /\ payments'[id] = payments[id]
            /\ runs'[id] = runs[id] /\ moved'[id] = moved[id]
            /\ (last'.op = "execute" /\ last'.id = id) =>
                  (last'.res = "Payment is not active" /\ bal' = bal /\ published' = <<>>)
       /\ (last'.op = "execute" /\ ~has_payment(last'.id)) =>
            (last'.res = "Payment not found" /\ bal' = bal /\ payments' = payments)
      ]_vars

\* C7 witness: an execution that was due and funded was refused because the
\* payment is canceled.
C7_Witness ==
    /\ last.op = "execute" /\ last.res = "Payment is not active"
    /\ now >= payments[last.id].next_execution
    /\ can_transfer(bal, payments[last.id].sender, payments[last.id].amount)

-----------------------------------------------------------------------------
(* Batch settlement properties *)

\* The outcome (accrued reward + bonus) of list position i of a batch, stated
\* from the stored entries before the call: an account credited at an earlier
\* position of the same batch has had its reward clock reset to the current
\* time, so it has accrued nothing more when a later position reaches it.
RECURSIVE position_outcome(_, _, _, _)
position_outcome(stakers, bonus_amounts, i, rate) ==
    LET credited_before ==
            \E j \in 1..(i - 1) :
                /\ stakers[j] = stakers[i]
                /\ position_outcome(stakers, bonus_amounts, j, rate) > 0
        accrued == IF credited_before THEN 0
                   ELSE time_reward(get_stake_entry(stakes, stakers[i]), rate)
    IN  accrued + bonus_amounts[i]

nonzero_positions(stakers, bonus_amounts, rate) ==
    {i \in 1..Len(stakers) : position_outcome(stakers, bonus_amounts, i, rate) > 0}

\* C10: a successful distribute_rewards over N list positions of which M have
\* a nonzero outcome (accrued reward + bonus > 0) performs exactly M stake-entry
\* writes, touching exactly the accounts of those positions, and publishes
\* exactly one BATCH event if M > 0 and none if M = 0, whatever N is; the
\* call never panics in the event validation.
C10_BatchWritesAndNotifications ==
    [][last'.op = "distribute" =>
         /\ last'.res # "event validation: batch must have at least one recipient"
         /\ last'.res # "event validation: total_rewards must be > 0"
         /\ last'.res = OK =>
               LET positions == nonzero_positions(last'.stakers, last'.bonus_amounts,
                                                  Config.reward_rate)
                   M == Cardinality(positions)
               IN  /\ last'.writes = M
                   /\ {a \in Addr : get_stake_entry(stakes', a) # get_stake_entry(stakes, a)}
                          = {last'.stakers[i] : i \in positions}
                   /\ Len(published') = IF M > 0 THEN 1 ELSE 0
                   /\ \A i \in 1..Len(published') : published'[i].topic = "BATCH"]_vars

\* a successful batch of two positions of which exactly one was written, with
\* its single BATCH event
C10_Witness ==
    /\ last.op = "distribute"
    /\ last.res = OK
    /\ Len(last.stakers) = 2
    /\ last.writes = 1
    /\ Len(published) = 1
    /\ published[1].recipients = 1
    /\ published[1].total_rewards = 1

\* A completed distribute_rewards invocation.
DistributedOk(l) == l.op = "distribute" /\ l.res = OK

\* The loop's result of the batch of `last`, from the state the call started in.
batch_result(l) ==
    distribute_result(l.stakers, l.bonus_amounts, (CHOOSE c \in config : TRUE).reward_rate)

\* C11: at every list position i of a successful distribute_rewards, the value
\* preview_rewards returns for position i in the state and at the instant the
\* call starts equals the time-weighted reward the call computes for the account
\* at position i, bonus excluded.
C11_PreviewEqualsSettledReward ==
    [][DistributedOk(last') =>
         /\ stakes' = batch_result(last').store
         /\ \A i \in 1..Len(last'.stakers) :
               preview_rewards(last'.stakers)[i] = batch_result(last').accrued[i]
      ]_vars

\* Companion to C11: the equality at the positions whose account was not
\* credited at an earlier position of the same batch.
PreviewEqualsSettledRewardUnlessCreditedBefore ==
    [][DistributedOk(last') =>
         /\ stakes' = batch_result(last').store
         /\ \A i \in 1..Len(last'.stakers) :
               (~\E j \in 1..(i - 1) : /\ last'.stakers[j] = last'.stakers[i]
                                        /\ batch_result(last').credited[j] > 0)
               => preview_rewards(last'.stakers)[i] = batch_result(last').accrued[i]
      ]_vars

\* Sum of the stored balances of the accounts of S.
RECURSIVE total_balance(_, _)
total_balance(store, S) ==
    IF S = {} THEN 0
    ELSE LET a == CHOOSE a \in S : TRUE
         IN  get_stake_entry(store, a).balance + total_balance(store, S \ {a})

\* Sum of a sequence of amounts.
RECURSIVE sum_seq(_)
sum_seq(q) == IF q = <<>> THEN 0 ELSE Head(q) + sum_seq(Tail(q))

\* C12: the BATCH event of a successful distribute_rewards carries recipients
\* equal to the number of addresses whose balance the call increased,
\* total_rewards equal to the sum of the amounts folded into balances, which is
\* the total increase of the stored balances, and timestamp equal to now.
C12_BatchEventTotals ==
    [][(DistributedOk(last') /\ published' # <<>>) =>
         LET e == published'[1]
             rewarded == {a \in Addr : get_stake_entry(stakes', a).balance
                                         > get_stake_entry(stakes, a).balance}
         IN  /\ e.recipients = Cardinality(rewarded)
             /\ e.total_rewards = sum_seq(batch_result(last').credited)
             /\ e.total_rewards = total_balance(stakes', Addr) - total_balance(stakes, Addr)
             /\ e.timestamp = now
      ]_vars

\* Companion to C12: recipients counts the credited list positions; the total
\* and the timestamp are as claimed.
BatchEventCountsCreditedPositions ==
    [][(DistributedOk(last') /\ published' # <<>>) =>
         LET e == published'[1]
             credited == batch_result(last').credited
         IN  /\ e.recipients = Cardinality({i \in 1..Len(credited) : credited[i] > 0})
             /\ e.total_rewards = sum_seq(credited)
             /\ e.total_rewards = total_balance(stakes', Addr) - total_balance(stakes, Addr)
             /\ e.timestamp = now
      ]_vars

-----------------------------------------------------------------------------
(* Properties of every operation *)

\* C13: an operation (initialize, stake, unstake, distribute_rewards, lock,
\* release, create_payment, execute_payment, cancel_payment) that fails, for
\* whatever reason, leaves the stored configuration, the account records, the
\* escrow entries, the payment records, the payment counter and the token
\* balances exactly as they were before the call, and publishes nothing.
C13_AllOrNothing ==
    [][last'.res # OK =>
         /\ UNCHANGED <<config, stakes, escrows, locked, payments, payment_count,
                        runs, moved, bal>>
         /\ published' = <<>>
      ]_vars

\* C13 witness: execute_payment panicked in the advance of next_execution, after
\* the token transfer it had asked for went through.
C13_Witness ==
    /\ last.op = "execute"
    /\ last.res = "attempt to add or multiply with overflow"
    /\ payments[last.id].active
    /\ now >= payments[last.id].next_execution
    /\ can_transfer(bal, payments[last.id].sender, payments[last.id].amount)

\* The invariants of a notification's payload: the validator of events/src/gas.rs
\* for the escrow, batch and staking events; for the executed event of a recurring
\* payment, which has no validator, a positive amount and a next_execution after
\* the time of publication; the created and canceled events carry an id and a
\* sender only.
notification_invariant(e) ==
    IF e.topic = "BATCH" THEN validate_batch_reward_event(e) = OK
    ELSE IF e.topic = "ESCROW" /\ e.kind = "locked"
         THEN validate_escrow_locked_event(e) = OK
    ELSE IF e.topic = "ESCROW" /\ e.kind = "released"
         THEN validate_escrow_released_event(e) = OK
    ELSE IF e.topic = "INIT" THEN validate_initialize_event(e) = OK
    ELSE IF e.topic = "STAKE" THEN validate_stake_event(e) = OK
    ELSE IF e.topic = "UNSTK" THEN validate_unstake_event(e) = OK
    ELSE IF e.topic = "recur" /\ e.kind = "executed"
         THEN e.amount > 0 /\ e.next_execution > now
    ELSE TRUE

\* C14: every notification an operation publishes satisfies the invariants of
\* its payload, and an operation that failed published nothing.
C14_PublishedNotificationsAreValid ==
    /\ \A i \in 1..Len(published) : notification_invariant(published[i])
    /\ last.res # OK => published = <<>>

\* Companion to C14: the statement for the notifications that go through an
\* emit_* helper of events/src/gas.rs.
EmittedNotificationsAreValid ==
    /\ \A i \in 1..Len(published) :
          published[i].topic \in {"BATCH", "ESCROW", "INIT", "STAKE", "UNSTK"} =>
              notification_invariant(published[i])
    /\ last.res # OK => published = <<>>

-----------------------------------------------------------------------------
(* Recurring payment: creation and scheduling guards *)

CreatedOk(l) == l.op = "create" /\ l.res = OK

\* C15: a successful create_payment returns the counter plus one and stores it as
\* the new counter; no other step changes the counter; the counter is the number
\* of payment records and the records are those of ids 1..counter; the new
\* record holds the given sender, recipient, token, amount and interval with
\* next_execution = start_time and active = TRUE, and no other record changes.
C15_SequentialPaymentIds ==
    [][/\ payment_count' = Cardinality(DOMAIN payments')
       /\ DOMAIN payments' = 1..payment_count'
       /\ IF CreatedOk(last')
          THEN /\ payment_count' = payment_count + 1
               /\ last'.id = payment_count'
               /\ last'.id \notin DOMAIN payments
               /\ payments'[last'.id] =
                      [sender |-> last'.request.sender,
                       recipient |-> last'.request.recipient,
                       token |-> TokenAddr,
                       amount |-> last'.request.amount,
                       interval |-> last'.request.interval,
                       next_execution |-> last'.request.start_time,
                       active |-> TRUE]
               /\ \A id \in DOMAIN payments : payments'[id] = payments[id]
          ELSE /\ payment_count' = payment_count
               /\ DOMAIN payments' = DOMAIN payments
      ]_vars

\* C15 witness: the second successful create_payment returned id 2.
C15_Witness ==
    /\ CreatedOk(last)
    /\ last.id = 2
    /\ payment_count = 2
    /\ DOMAIN payments = {1, 2}

\* The guard of execute_payment as claimed: the record exists, is active and is due.
execute_due(payment_id) ==
    /\ has_payment(payment_id)
    /\ payments[payment_id].active
    /\ now >= payments[payment_id].next_execution

\* C16 as stated: execute_payment before next_execution fails as too early with
\* no transfer and the record unchanged, and the call succeeds exactly when the
\* record exists, is active and now >= next_execution.
C16_ExecuteEnabledExactlyWhenDue ==
    [][last'.op = "execute" =>
         /\ (has_payment(last'.id) /\ payments[last'.id].active
               /\ now < payments[last'.id].next_execution) =>
                (/\ last'.res = "Too early for next execution"
                 /\ bal' = bal /\ payments' = payments /\ published' = <<>>)
         /\ last'.res = OK <=> execute_due(last'.id)
      ]_vars

\* C16 amended: the too-early failure as stated; the call succeeds only when the
\* record exists, is active and now >= next_execution, and when these hold it
\* fails only because the token transfer fails or the advance of next_execution
\* overflows.
C16_TooEarlyFailsAndDueIsNecessary ==
    [][last'.op = "execute" =>
         /\ (has_payment(last'.id) /\ payments[last'.id].active
               /\ now < payments[last'.id].next_execution) =>
                (/\ last'.res = "Too early for next execution"
                 /\ bal' = bal /\ payments' = payments /\ published' = <<>>)
         /\ last'.res = OK => execute_due(last'.id)
         /\ (execute_due(last'.id) /\ last'.res # OK) =>
                last'.res \in {TransferFailure, "attempt to add or multiply with overflow"}
      ]_vars

\* C16 witness: an execution of an active payment with a funded sender was
\* refused as too early.
C16_Witness ==
    /\ last.op = "execute"
    /\ last.res = "Too early for next execution"
    /\ payments[last.id].active
    /\ now < payments[last.id].next_execution
    /\ can_transfer(bal, payments[last.id].sender, payments[last.id].amount)

\* C17: create_payment with amount <= 0 or interval = 0 fails, returns no id,
\* leaves the payment counter and the records as they were and publishes
\* nothing; every stored payment has amount > 0 and interval > 0.
C17_InvalidScheduleRejected ==
    [][/\ (last'.op = "create"
            /\ (last'.request.amount <= 0 \/ last'.request.interval = 0)) =>
              /\ last'.res # OK
              /\ last'.id = 0
              /\ payment_count' = payment_count
              /\ payments' = payments
              /\ published' = <<>>
       /\ \A id \in DOMAIN payments' :
              payments'[id].amount > 0 /\ payments'[id].interval > 0
      ]_vars

\* C17 witness: the sender's own request with a non-positive amount was refused
\* while a payment was already stored.
C17_Witness ==
    /\ last.op = "create"
    /\ last.caller = last.request.sender
    /\ last.request.amount <= 0
    /\ last.res = "Amount must be positive"
    /\ payment_count = 1

-----------------------------------------------------------------------------
(* Escrow: input guards of lock *)

\* C18: a lock that succeeds wrote the entry of its key with amount > 0 and an
\* unlock_ts strictly after the time of the call, the values of its arguments
\* as its locked event carries them, so no lock with amount <= 0 or
\* unlock_ts <= now succeeds; a lock that fails transfers nothing and writes no
\* entry; every existing entry has amount > 0.
C18_LockInputsChecked ==
    [][/\ (last'.op = "lock" /\ last'.res = OK) =>
            /\ last'.key \notin DOMAIN escrows
            /\ last'.key \in DOMAIN escrows'
            /\ escrows'[last'.key].amount > 0
            /\ escrows'[last'.key].unlock_ts > now
            /\ Len(published') = 1
            /\ published'[1].amount = escrows'[last'.key].amount
            /\ published'[1].unlock_ts = escrows'[last'.key].unlock_ts
            /\ published'[1].timestamp = now
            /\ bal'[Contract] = bal[Contract] + escrows'[last'.key].amount
       /\ (last'.op = "lock" /\ last'.res # OK) =>
            (bal' = bal /\ escrows' = escrows /\ published' = <<>>)
       /\ last'.res \in {"escrow amount must be > 0", "unlock_ts must be in the future"} =>
            (last'.op = "lock" /\ bal' = bal /\ escrows' = escrows)
       /\ \A k \in DOMAIN escrows' : escrows'[k].amount > 0
      ]_vars

\* C18 witness: a lock authorized by its depositor was refused because its
\* unlock_ts was not in the future, with an entry already held and time advanced.
C18_Witness ==
    /\ last.op = "lock"
    /\ last.res = "unlock_ts must be in the future"
    /\ last.caller = last.key[1]
    /\ now > 0
    /\ escrows # <<>>

-----------------------------------------------------------------------------
(* Batch settlement: input guards and authority *)

\* C19: a distribute_rewards that succeeds had lists of equal length with at
\* least one position, so no call with len(stakers) # len(bonus_amounts) or
\* with an empty list succeeds, an empty batch included; a call that fails
\* writes no stake entry and publishes nothing.
C19_BatchShapeChecked ==
    [][last'.op = "distribute" =>
         /\ last'.res = OK =>
               /\ Len(last'.stakers) = Len(last'.bonus_amounts)
               /\ Len(last'.stakers) > 0
         /\ last'.res # OK => (stakes' = stakes /\ published' = <<>>)
         /\ last'.res \in {"stakers and bonus_amounts must be the same length",
                            "staker list must not be empty"} =>
               (stakes' = stakes /\ published' = <<>>)
      ]_vars

\* C19 witness: the administrator's empty batch was refused while stake
\* entries exist.
C19_Witness ==
    /\ last.op = "distribute"
    /\ last.res = "staker list must not be empty"
    /\ last.caller = last.admin
    /\ last.admin = Config.admin
    /\ stakes # <<>>

\* C20: a distribute_rewards call whose admin argument is not authorized by the
\* caller, or differs from the admin of the stored Config, or finds no Config,
\* fails, writes no stake entry and publishes nothing; stake entries change only
\* in a successful call authorized by the stored admin.
C20_OnlyStoredAdminSettles ==
    [][/\ (last'.op = "distribute"
            /\ (\/ ~require_auth(last'.caller, last'.admin)
                \/ config = {}
                \/ \E c \in config : c.admin # last'.admin)) =>
              (last'.res # OK /\ stakes' = stakes /\ published' = <<>>)
       /\ stakes' # stakes =>
              /\ DistributedOk(last')
              /\ require_auth(last'.caller, last'.admin)
              /\ \A c \in config : c.admin = last'.admin
              /\ config # {}
      ]_vars

\* C20 witness: a principal that authorized itself as admin, with a well-formed
\* batch, was refused because it is not the stored admin.
C20_Witness ==
    /\ last.op = "distribute"
    /\ last.res = "caller is not the contract admin"
    /\ last.caller = last.admin
    /\ last.admin # Config.admin
    /\ stakes # <<>>

-----------------------------------------------------------------------------
(* Recurring payment: authority over cancel_payment *)

\* C21: cancel_payment succeeds only on a stored payment and with the
\* authorization of the sender recorded in it; a caller that does not prove
\* authority as that sender fails and leaves every record as it was; a payment
\* is deactivated only by such a call; the recorded sender never changes;
\* cancel_payment on an id that is not stored fails as not found.
C21_OnlySenderCancels ==
    [][/\ last'.op = "cancel" =>
            /\ last'.res = OK =>
                  (has_payment(last'.id)
                     /\ require_auth(last'.caller, payments[last'.id].sender))
            /\ (has_payment(last'.id)
                  /\ ~require_auth(last'.caller, payments[last'.id].sender)) =>
                  (last'.res = AuthFailure /\ payments' = payments /\ published' = <<>>)
            /\ ~has_payment(last'.id) =>
                  (last'.res = "Payment not found" /\ payments' = payments
                     /\ published' = <<>>)
       /\ \A id \in DOMAIN payments :
            /\ payments'[id].sender = payments[id].sender
            /\ (payments[id].active /\ ~payments'[id].active) =>
                  (last'.op = "cancel" /\ last'.id = id /\ last'.res = OK
                     /\ last'.caller = payments[id].sender)
      ]_vars

\* C21 witness: a principal other than the recorded sender tried to cancel an
\* active payment and was refused.
C21_Witness ==
    /\ last.op = "cancel"
    /\ last.res = AuthFailure
    /\ has_payment(last.id)
    /\ last.caller # payments[last.id].sender
    /\ payments[last.id].active

-----------------------------------------------------------------------------
(* Read-only entry points *)

ReadOps == {"get_escrow", "get_payment", "get_stake", "preview_rewards"}

\* C22: the reads are pure.  A step of get_escrow, get_payment, get_stake or
\* preview_rewards leaves the configuration, every record, the payment counter
\* and every balance as they were and publishes nothing; get_stake returns the
\* stored balance (0 without a record), accrued reward not folded in; get_escrow
\* returns the stored entry, or the explicit absence when there is none.
C22_ReadsArePure ==
    [][last'.op \in ReadOps =>
          /\ <<config, bal, escrows, payment_count, payments, stakes>>' =
                 <<config, bal, escrows, payment_count, payments, stakes>>
          /\ published' = <<>>
          /\ last'.op = "get_stake" =>
                last'.ret = IF last'.staker \in DOMAIN stakes
                            THEN stakes[last'.staker].balance ELSE 0
          /\ last'.op = "get_escrow" =>
                last'.ret = IF last'.key \in DOMAIN escrows
                            THEN {escrows[last'.key]} ELSE {}
      ]_vars

\* get_stake answered 100 for a position that has accrued a reward since its
\* last mutation.
C22_Witness ==
    /\ last.op = "get_stake"
    /\ last.staker \in DOMAIN stakes
    /\ config # {}
    /\ accrued_reward(stakes[last.staker], (CHOOSE c \in config : TRUE).reward_rate) > 0
    /\ last.ret = stakes[last.staker].balance

-----------------------------------------------------------------------------
(* Staking properties *)

StakedOk(l) == l.op = "stake" /\ l.res = OK

\* C23: stake(account, amount) with an amount below the configured minimum
\* fails before any write.  No stake of less than the minimum succeeds, and a
\* stake that fails leaves every stake record and every balance as it was and
\* publishes no notification.
C23_StakeBelowMinimumFails ==
    [][last'.op = "stake" =>
          /\ last'.res = OK =>
                /\ config # {}
                /\ \A c \in config : last'.amount >= c.min_stake
          /\ last'.res # OK =>
                /\ stakes' = stakes
                /\ bal' = bal
                /\ published' = <<>>
      ]_vars

\* A stake below the minimum was refused for an account that holds a record.
C23_Witness ==
    /\ last.op = "stake"
    /\ last.res = "amount below minimum stake"
    /\ last.staker \in DOMAIN stakes
    /\ stakes[last.staker].balance > 0

\* C24: the configuration is set exactly once.  Once a Config is stored every
\* later initialize fails and publishes nothing, and no operation changes the
\* stored administrator, reward rate, minimum stake or token; an initialize
\* that succeeds is the one that found no Config and stored its arguments.
C24_ConfigurationSetOnce ==
    [][/\ config # {} => config' = config
       /\ (last'.op = "initialize" /\ config # {}) =>
             (last'.res # OK /\ published' = <<>>)
       /\ (last'.op = "initialize" /\ last'.res = OK) =>
             /\ config = {}
             /\ \E c \in config' :
                   /\ config' = {c}
                   /\ c.admin = last'.caller
                   /\ c.token = TokenAddr
                   /\ c.reward_rate \in RewardRates /\ c.reward_rate > 0
                   /\ c.min_stake \in MinStakes
      ]_vars

\* An initialize naming another administrator was refused; the stored one stays.
C24_Witness ==
    /\ last.op = "initialize"
    /\ last.res = "already initialised"
    /\ \E c \in config : c.admin # last.caller /\ c.reward_rate = 1200 /\ c.min_stake = 100

UnstakedOk(l) == l.op = "unstake" /\ l.res = OK

\* C25: stake(account, p), time advances, unstake(account, p).  An unstake of
\* the whole principal of a position staked earlier removes the record, so that
\* get_stake returns 0, and what is transferred out is the principal with the
\* reward accrued over the elapsed time.
C25_FullUnstakeReturnsPrincipalAndReward ==
    [][(/\ UnstakedOk(last')
        /\ stakes[last'.staker].balance = last'.amount
        /\ stakes[last'.staker].staked_at < now) =>
          /\ last'.staker \notin DOMAIN stakes'
          /\ get_stake(last.staker)' = 0
          /\ \E c \in config :
                bal'[last'.staker] =
                    bal[last'.staker] + last'.amount
                        + accrued_reward(stakes[last'.staker], c.reward_rate)
      ]_vars

\* 100 staked at time 0 and unstaked one period later: the record is gone and
\* 100 + 12 has been paid out.
C25_Witness ==
    /\ UnstakedOk(last)
    /\ last.amount = 100
    /\ last.staker \notin DOMAIN stakes
    /\ now = 1
    /\ bal[last.staker] = 112
    /\ \E e \in {published[i] : i \in DOMAIN published} : e.remaining = 0 /\ e.reward = 12

\* C26: unstake fails, leaving every record and balance as it was, when the
\* account has no record or when the amount exceeds the balance with the
\* accrued reward folded in.  A successful unstake leaves (balance + accrued
\* reward) - amount, moves exactly `amount` from the contract to the account
\* and restarts the accrual window at the current time.
C26_UnstakeArithmetic ==
    [][last'.op = "unstake" =>
          /\ last'.res # OK =>
                (stakes' = stakes /\ bal' = bal /\ published' = <<>>)
          /\ last'.staker \notin DOMAIN stakes => last'.res # OK
          /\ last'.res = OK =>
                \E c \in config :
                    LET s == last'.staker
                        reward == compute_reward(stakes[s].balance, stakes[s].staked_at,
                                                 now, c.reward_rate)
                        remaining == stakes[s].balance + reward - last'.amount
                    IN  /\ last'.amount <= stakes[s].balance + reward
                        /\ remaining >= 0
                        /\ get_stake(last.staker)' = remaining
                        /\ s \in DOMAIN stakes' => stakes'[s].staked_at = now
                        /\ bal'[s] = bal[s] + last'.amount
                        /\ bal'[Contract] = bal[Contract] - last'.amount
                        /\ \A h \in Holders \ {s, Contract} : bal'[h] = bal[h]
                        /\ \A a \in DOMAIN stakes \ {s} :
                              a \in DOMAIN stakes' /\ stakes'[a] = stakes[a]
      ]_vars

\* C26 as amended: unstake fails, leaving every record and balance as it was,
\* when the account has no record or when the amount exceeds the stored
\* balance.  A successful unstake leaves balance - amount, moves amount plus the
\* accrued reward from the contract to the account and restarts the accrual
\* window at the current time.
C26_UnstakeTakesFromPrincipal ==
    [][last'.op = "unstake" =>
          /\ last'.res # OK =>
                (stakes' = stakes /\ bal' = bal /\ published' = <<>>)
          /\ last'.staker \notin DOMAIN stakes => last'.res # OK
          /\ last'.res = OK =>
                \E c \in config :
                    LET s == last'.staker
                        reward == compute_reward(stakes[s].balance, stakes[s].staked_at,
                                                 now, c.reward_rate)
                        remaining == stakes[s].balance - last'.amount
                    IN  /\ last'.amount <= stakes[s].balance
                        /\ get_stake(last.staker)' = remaining
                        /\ s \in DOMAIN stakes' => stakes'[s].staked_at = now
                        /\ bal'[s] = bal[s] + last'.amount + reward
                        /\ bal'[Contract] = bal[Contract] - last'.amount - reward
                        /\ \A h \in Holders \ {s, Contract} : bal'[h] = bal[h]
                        /\ \A a \in DOMAIN stakes \ {s} :
                              a \in DOMAIN stakes' /\ stakes'[a] = stakes[a]
      ]_vars

\* A partial unstake one period after two stakes of 100: 100 taken from a
\* balance of 200 leaves 100, with the reward of 24 paid out.
C26_Witness ==
    /\ UnstakedOk(last)
    /\ last.amount = 100
    /\ last.staker \in DOMAIN stakes
    /\ stakes[last.staker] = [balance |-> 100, staked_at |-> now]
    /\ \E e \in {published[i] : i \in DOMAIN published} : e.remaining = 100 /\ e.reward = 24
    /\ bal[last.staker] >= 124

\* C27: a successful stake sets the balance to (previous balance + reward
\* accrued since the previous mutation) + amount, an absent record counting as
\* balance 0, and restarts the accrual window at the current time; the balance
\* after a second stake is therefore at least the sum of the two amounts.
C27_StakeFoldsRewardThenAdds ==
    [][StakedOk(last') =>
          \E c \in config :
              LET s == last'.staker
                  previous == IF s \in DOMAIN stakes THEN stakes[s].balance ELSE 0
                  reward == IF s \in DOMAIN stakes
                            THEN compute_reward(stakes[s].balance, stakes[s].staked_at,
                                                now, c.reward_rate)
                            ELSE 0
              IN  /\ s \in DOMAIN stakes'
                  /\ stakes'[s] = [balance |-> previous + reward + last'.amount,
                                   staked_at |-> now]
                  /\ stakes'[s].balance >= previous + last'.amount
                  /\ \A a \in DOMAIN stakes \ {s} :
                        a \in DOMAIN stakes' /\ stakes'[a] = stakes[a]
      ]_vars

\* A second stake of 100 one period after the first: 100 + 12 + 100.
C27_Witness ==
    /\ StakedOk(last)
    /\ last.amount = 100
    /\ now = 1
    /\ stakes[last.staker] = [balance |-> 212, staked_at |-> 1]

-----------------------------------------------------------------------------
(* Reward calculator properties *)

\* C28: compute_reward is pure and, for balance >= 0 and staked_at <=
\* current_time, returns a non-negative reward that does not decrease when the
\* window (current_time - staked_at) grows or when the balance grows, and that
\* is 0 when the balance is 0 or the window is empty.  An application changes
\* no state, and its result depends on its arguments only.
C28_RewardMonotoneAndZeroAtOrigin ==
    [][last'.op = "compute_reward" =>
          /\ UNCHANGED <<now, config, bal, escrows, payment_count, payments, stakes, published>>
          /\ last'.ret >= 0
          /\ (last'.balance = 0 \/ last'.current_time = last'.staked_at) => last'.ret = 0
          /\ \A b \in RewardBalances :
                b >= last'.balance =>
                    compute_reward(b, last'.staked_at, last'.current_time, last'.rate)
                        >= last'.ret
          /\ \A t \in last'.current_time..(MaxNow + 1) :
                /\ compute_reward(last'.balance, last'.staked_at, t, last'.rate) >= last'.ret
                /\ \A d \in 0..last'.staked_at :
                      compute_reward(last'.balance, last'.staked_at - d, t - d, last'.rate)
                          = compute_reward(last'.balance, last'.staked_at, t, last'.rate)
      ]_vars

\* A balance of 9 over one period at rate 1200: the floor of 1.08.
C28_Witness ==
    /\ last.op = "compute_reward"
    /\ last.balance = 9 /\ last.current_time - last.staked_at = 1 /\ last.rate = 1200
    /\ last.ret = 1

-----------------------------------------------------------------------------
(* Escrow: custody *)

\* the tokens the stored entries account for
RECURSIVE escrowed_total(_)
escrowed_total(S) ==
    IF S = {} THEN 0
    ELSE LET k == CHOOSE k \in S : TRUE
         IN  escrows[k].amount + escrowed_total(S \ {k})

\* C30: within release the slot is removed before the outward transfer: while
\* a release is inside the token's transfer its entry is no longer stored and
\* its funds are still with the contract.  No state, that position and the
\* state after a refused transfer included, holds an entry that has been paid;
\* and between invocations an entry is stored under (depositor, id) exactly
\* when the funds of the last lock under that key are still held, the
\* contract's custody being the sum of the stored entries' amounts.
C30_EntryPresentIffFundsHeld ==
    /\ release_in_transfer =>
          /\ last.key \notin DOMAIN escrows
          /\ locked[last.key].st = "held"
          /\ locked[last.key].amount = last.entry.amount
          /\ bal[Contract] = escrowed_total(DOMAIN escrows) + last.entry.amount
    /\ \A k \in EscrowKeys :
          /\ k \in DOMAIN escrows =>
                (locked[k].st = "held" /\ escrows[k].amount = locked[k].amount)
          /\ (~release_in_transfer \/ k # last.key) =>
                (locked[k].st = "held" => k \in DOMAIN escrows)
    /\ bal[Contract] >= escrowed_total(DOMAIN escrows)
    /\ ~release_in_transfer => bal[Contract] = escrowed_total(DOMAIN escrows)

\* A release of an unlocked entry was refused by the token in its transfer: the
\* entry is stored again and its funds are still in custody.
C30_Witness ==
    /\ last.op = "release"
    /\ last.res = TransferFailure
    /\ last.key \in DOMAIN escrows
    /\ now >= escrows[last.key].unlock_ts
    /\ locked[last.key].st = "held"
    /\ bal[Contract] >= escrows[last.key].amount
    /\ escrows[last.key].amount > 0

-----------------------------------------------------------------------------
(* Batch settlement: the per-account rule *)

\* The store the per-account rule yields from position i on: an absent record
\* reads as balance 0; balance = 0 and bonus = 0 is skipped; otherwise r is the
\* accrued reward (0 unless balance > 0) plus the bonus, and only r > 0 is written,
\* as balance + r with staked_at = now.
RECURSIVE settled_by_rule(_, _, _, _, _)
settled_by_rule(store, stakers, bonus_amounts, i, rate) ==
    IF i > Len(stakers) THEN store
    ELSE LET a == stakers[i]
             bonus == bonus_amounts[i]
             balance == IF a \in DOMAIN store THEN store[a].balance ELSE 0
             reward == IF balance > 0
                       THEN compute_reward(balance, store[a].staked_at, now, rate)
                       ELSE 0
             r == reward + bonus
             written == [x \in DOMAIN store \cup {a} |->
                            IF x = a THEN [balance |-> balance + r, staked_at |-> now]
                            ELSE store[x]]
         IN  settled_by_rule(IF (balance = 0 /\ bonus = 0) \/ r <= 0 THEN store ELSE written,
                             stakers, bonus_amounts, i + 1, rate)

\* C31: distribute_rewards applies the per-account rule to each (account, bonus)
\* pair in list order.  The store after a successful call is the store the rule
\* yields: a pair with balance 0 and bonus 0, or with r <= 0, leaves the record
\* untouched, and a pair with r > 0 writes balance + r and staked_at = now.
C31_PerAccountRule ==
    [][DistributedOk(last') =>
          \E c \in config :
              stakes' = settled_by_rule(stakes, last'.stakers, last'.bonus_amounts, 1,
                                        c.reward_rate)
      ]_vars

\* One batch at time 1: alice's record, whose reward does not outweigh the bonus
\* of -1, is untouched, and bob, without a record, gets balance 6 from now.
C31_Witness ==
    /\ DistributedOk(last)
    /\ last.stakers = <<"alice", "bob">>
    /\ last.bonus_amounts = <<-1, 6>>
    /\ now = 1
    /\ "alice" \in DOMAIN stakes /\ stakes["alice"].staked_at = 0
    /\ stakes["bob"] = [balance |-> 6, staked_at |-> 1]

-----------------------------------------------------------------------------
(* Accrual window *)

\* the time-weighted reward credited to account a by the batch of observation l
RECURSIVE credited_reward(_, _, _)
credited_reward(l, a, i) ==
    IF i > Len(l.stakers) THEN 0
    ELSE (IF l.stakers[i] = a /\ batch_result(l).credited[i] > 0
          THEN batch_result(l).accrued[i] ELSE 0)
         + credited_reward(l, a, i + 1)

\* C32: accrued reward is never counted twice.  Every step of stake, unstake or
\* distribute_rewards that changes a stored balance leaves the record with
\* staked_at = now; right after distribute_rewards the reward preview_rewards
\* computes at the same instant is 0 for every account the batch wrote, and an
\* account, however often it is listed in the batch, is credited at most the
\* time-weighted reward its record had accrued before the call.
C32_NoDoubleCounting ==
    [][/\ \A a \in Addr :
            (/\ a \in DOMAIN stakes'
             /\ get_stake_entry(stakes', a).balance # get_stake_entry(stakes, a).balance)
            => stakes'[a].staked_at = now
       /\ DistributedOk(last') =>
            \E c \in config :
                \A a \in Addr :
                    /\ (\E i \in 1..Len(last'.stakers) :
                            last'.stakers[i] = a /\ batch_result(last').credited[i] > 0)
                       => /\ a \in DOMAIN stakes'
                          /\ compute_reward(stakes'[a].balance, stakes'[a].staked_at,
                                            now, c.reward_rate) = 0
                    /\ credited_reward(last', a, 1) <= time_reward(get_stake_entry(stakes, a),
                                                                  c.reward_rate)
      ]_vars

\* alice, listed twice in one batch with a reward of 1 accrued, was credited the
\* reward at the first position only: 12 + 1 and nothing more.
C32_Witness ==
    /\ DistributedOk(last)
    /\ last.stakers = <<"alice", "alice">>
    /\ last.bonus_amounts = <<0, 0>>
    /\ now > 0
    /\ "alice" \in DOMAIN stakes
    /\ stakes["alice"] = [balance |-> 13, staked_at |-> now]

\* C33: custody is conserved.  In every reachable state the tokens the escrow
\* contract holds equal the sum of `amount` over the stored entries; a
\* successful lock adds its amount to both, a successful release takes the
\* entry's amount from both, and no other step changes either.  (The equality
\* is stated for the state after deployment and after every step that changes
\* an entry or a balance; the other steps leave both sides as they were.)
C33_CustodyConservation ==
    [][/\ last.op = "deploy" => bal[Contract] = escrowed_total(DOMAIN escrows)
       /\ (escrows' # escrows \/ bal' # bal) =>
             bal'[Contract] = escrowed_total(DOMAIN escrows)'
       /\ (last'.op = "lock" /\ last'.res = OK) =>
             /\ last'.key \notin DOMAIN escrows
             /\ DOMAIN escrows' = DOMAIN escrows \cup {last'.key}
             /\ \A k \in DOMAIN escrows : escrows'[k] = escrows[k]
             /\ escrows'[last'.key].amount > 0
             /\ bal'[Contract] = bal[Contract] + escrows'[last'.key].amount
       /\ (last'.op = "release" /\ last'.res = OK) =>
             /\ last'.key \in DOMAIN escrows
             /\ DOMAIN escrows' = DOMAIN escrows \ {last'.key}
             /\ \A k \in DOMAIN escrows' : escrows'[k] = escrows[k]
             /\ bal'[Contract] = bal[Contract] - escrows[last'.key].amount
       /\ ~(last'.op \in {"lock", "release"} /\ last'.res = OK) =>
             (bal'[Contract] = bal[Contract] /\ escrows' = escrows)
      ]_vars

\* Two entries are stored and the contract holds the sum of their amounts.
C33_Witness ==
    /\ Cardinality(DOMAIN escrows) = 2
    /\ bal[Contract] = 2
    /\ \A k \in DOMAIN escrows : escrows[k].amount = 1
    /\ last.op = "lock" /\ last.res = OK

\* C34: the schedule of a payment stays on its grid. A created payment starts
\* at the start_time of its request, and from one state to the next the stored
\* next_execution of every payment moves forward by a whole number k >= 0 of its
\* (unchanged) interval, so that next_execution = start_time + k * interval with
\* k never decreasing.
C34_ScheduleGrid ==
    [][/\ CreatedOk(last') =>
              payments'[last'.id].next_execution = last'.request.start_time
       /\ \A id \in DOMAIN payments :
              /\ id \in DOMAIN payments'
              /\ payments'[id].interval = payments[id].interval
              /\ \E k \in 0..(U64Max + 1) :
                    payments'[id].next_execution =
                        payments[id].next_execution + k * payments[id].interval
      ]_vars

\* Companion to C34: the grid is kept by every step other than an execution
\* whose u64 arithmetic leaves the type.
ScheduleGridUnlessWrapped ==
    [][/\ CreatedOk(last') =>
              payments'[last'.id].next_execution = last'.request.start_time
       /\ \A id \in DOMAIN payments :
              (~(ExecutedOk(last') /\ last'.id = id
                    /\ advance_overflows(now, payments[id].next_execution,
                                         payments[id].interval))) =>
                  /\ id \in DOMAIN payments'
                  /\ payments'[id].interval = payments[id].interval
                  /\ \E k \in 0..(U64Max + 1) :
                        payments'[id].next_execution =
                            payments[id].next_execution + k * payments[id].interval
      ]_vars

\* C35: frame conditions of the scheduler. A successful execute_payment(id)
\* changes, in the stored payments, only next_execution of payment id; a
\* successful cancel_payment(id) changes only active of payment id; neither
\* changes the payment counter or another payment's record. From any state to
\* the next every payment keeps its record, with the same sender, recipient,
\* token, amount and interval.
C35_RecurringFrame ==
    [][/\ ExecutedOk(last') =>
              /\ payment_count' = payment_count
              /\ payments' = [payments EXCEPT ![last'.id].next_execution =
                                                  payments'[last'.id].next_execution]
       /\ (last'.op = "cancel" /\ last'.res = OK) =>
              /\ payment_count' = payment_count
              /\ payments' = [payments EXCEPT ![last'.id].active =
                                                  payments'[last'.id].active]
       /\ \A id \in DOMAIN payments :
              /\ id \in DOMAIN payments'
              /\ payments'[id].sender = payments[id].sender
              /\ payments'[id].recipient = payments[id].recipient
              /\ payments'[id].token = payments[id].token
              /\ payments'[id].amount = payments[id].amount
              /\ payments'[id].interval = payments[id].interval
      ]_vars

\* Two payments exist; the second has run and was then canceled, and the first has just
\* been executed.
C35_Witness ==
    /\ ExecutedOk(last) /\ last.id = 1
    /\ payment_count = 2
    /\ DOMAIN payments = {1, 2}
    /\ payments[1].active
    /\ ~payments[2].active
    /\ runs[2] > 0

\* The accounts of a batch all of whose listed bonus values are negative.
only_negative_bonus(l, a) ==
    /\ \E i \in 1..Len(l.stakers) : l.stakers[i] = a
    /\ \A i \in 1..Len(l.stakers) : l.stakers[i] = a => l.bonus_amounts[i] < 0

\* C36: batch settlement never reduces a stake. With non-negative stored
\* balances beforehand, a successful distribute_rewards leaves every account's
\* balance at least what it was, every record it writes or leaves has a balance
\* > 0, and an account listed only with negative bonus values gains at most the
\* reward it accrued: the bonus shrinks or cancels the credit, it never turns it
\* into a debit.
C36_SettlementNeverReducesStake ==
    [][(DistributedOk(last') /\ \A a \in DOMAIN stakes : stakes[a].balance >= 0) =>
        \E c \in config :
          \A a \in Addr :
            LET before == get_stake_entry(stakes, a)
                after == get_stake_entry(stakes', a)
            IN  /\ after.balance >= before.balance
                /\ (a \in DOMAIN stakes' /\ after # before) => after.balance > 0
                /\ only_negative_bonus(last', a) =>
                      after.balance - before.balance <= time_reward(before, c.reward_rate)
      ]_vars

\* A batch that lists alice once with bonus -1 has just credited her a reward the
\* bonus shrank to 1: she holds 13 or more and the clock is past the deployment.
C36_Witness ==
    /\ DistributedOk(last)
    /\ last.stakers = <<"alice">>
    /\ last.bonus_amounts = <<-1>>
    /\ last.writes = 1
    /\ "alice" \in DOMAIN stakes
    /\ stakes["alice"].balance >= 13
    /\ stakes["alice"].staked_at = now

\* The two contracts that publish through the validated emit_* helpers, each
\* from its deployment.
InitNotifying == InitEscrow \/ InitBatch

NextNotifying ==
    \/ registered = "escrow" /\ lock
    \/ registered = "escrow" /\ release
    \/ registered = "batch" /\ distribute_rewards
    \/ Tick

SpecNotifying == InitNotifying /\ [][NextNotifying]_vars

\* The panics of the validate_* helpers that lock, release and
\* distribute_rewards run before they publish.
EventValidationPanics ==
    {"event validation: escrow amount must be > 0",
     "event validation: unlock_ts must be in the future",
     "event validation: released amount must be > 0",
     "event validation: batch must have at least one recipient",
     "event validation: total_rewards must be > 0"}

\* C37: the validation of a notification never aborts an operation that passed
\* its own preconditions. No call ends with a panic of a validate_* helper;
\* every stored escrow entry, which is what release reads, has amount > 0; and
\* the payloads published satisfy what their validation asks: amount > 0 and
\* unlock_ts > timestamp for a lock, amount > 0 for a release, recipients > 0
\* and total_rewards > 0 for a batch.
C37_ValidationNeverAborts ==
    /\ last.res \notin EventValidationPanics
    /\ \A k \in DOMAIN escrows : escrows[k].amount > 0
    /\ \A i \in 1..Len(published) :
          /\ (published[i].topic = "ESCROW" /\ published[i].kind = "locked") =>
                (published[i].amount > 0 /\ published[i].unlock_ts > published[i].timestamp)
          /\ (published[i].topic = "ESCROW" /\ published[i].kind = "released") =>
                published[i].amount > 0
          /\ published[i].topic = "BATCH" =>
                (published[i].recipients > 0 /\ published[i].total_rewards > 0)

\* A release has just gone through and published its notification, after the
\* lock that stored its entry.
C37_Witness ==
    /\ last.op = "release" /\ last.res = OK
    /\ Len(published) = 1
    /\ published[1].topic = "ESCROW" /\ published[1].kind = "released"
    /\ published[1].amount = 2
    /\ locked[last.key].st = "paid"

\* release(depositor, escrow_id) has just paid amount to beneficiary
released_to(key, beneficiary) ==
    /\ last.op = "release" /\ last.res = OK /\ last.key = key
    /\ key \notin DOMAIN escrows
    /\ Len(published) = 1
    /\ published[1].kind = "released"
    /\ published[1].beneficiary = beneficiary

\* Companion to C38, its part about single steps: an existing entry is left as
\* it is by every step but its own successful release, which removes it and
\* names the beneficiary it was locked for; and while an entry exists and the
\* clock has reached its unlock_ts, release of it is enabled for every caller.
EntryKeptAndReleasableUntilReleased ==
    [][\A key \in DOMAIN escrows :
          /\ \/ key \in DOMAIN escrows' /\ escrows'[key] = escrows[key]
             \/ /\ last'.op = "release" /\ last'.res = OK /\ last'.key = key
                /\ key \notin DOMAIN escrows'
                /\ Len(published') = 1
                /\ published'[1].kind = "released"
                /\ published'[1].beneficiary = escrows[key].beneficiary
          /\ now >= escrows[key].unlock_ts =>
                \A caller \in Addr : ENABLED release_taken(caller, key)
      ]_vars

\* C38: escrow liveness. An existing entry is left as it is by every step but
\* its own successful release; while an entry exists and the clock has reached
\* its unlock_ts, release of it is enabled for every caller; and, the ledger
\* closing and release being called fairly, every entry whose unlock_ts the
\* clock can reach is eventually released to the beneficiary it was locked for.
C38_EscrowLiveness ==
    /\ EntryKeptAndReleasableUntilReleased
    /\ \A key \in EscrowKeys :
          (key \in DOMAIN escrows /\ escrows[key].unlock_ts <= MaxNow)
              ~> (last.op = "release" /\ last.res = OK /\ last.key = key)

\* Companion to C38: the eventual release alone, which fails on a ledger
\* without the fairness of SpecEscrowFair.
EveryReachableEntryReleased ==
    \A key \in EscrowKeys :
        (key \in DOMAIN escrows /\ escrows[key].unlock_ts <= MaxNow)
            ~> (last.op = "release" /\ last.res = OK /\ last.key = key)

\* An entry locked for bob with unlock_ts = 2 has been released at time 2, by a
\* caller who is not its depositor.
C38_Witness ==
    /\ released_to(<<"alice", 1>>, "bob")
    /\ last.caller = "bob"
    /\ now = 2
    /\ published[1].timestamp = 2
    /\ locked[<<"alice", 1>>].st = "paid"

=============================================================================
